---------------------------- MODULE Spec2Model ----------------------------
(***************************************************************************)
(* NovaNews PWA: the article store, the category filter, the search        *)
(* engine, the view composer and the top-level screen selection of         *)
(* src/src/App.tsx and its components, as a state machine.                 *)
(*                                                                         *)
(* Spec      the application: one action per event handler, each followed  *)
(*           by the re-render (the derived views) and the effects React    *)
(*           runs after it.                                                *)
(* PureSpec  the derived views as pure functions: the inputs (collection,  *)
(*           category, query) are drawn from bounded sets by PureInit and  *)
(*           PureRender applies the functions to them.                     *)
(***************************************************************************)
EXTENDS Integers, Sequences, FiniteSets, TLC

VARIABLES
    articles,           \* App: useState<Article[]>(mockArticles)
    activeCategory,     \* App: useState("home")
    selectedArticle,    \* App: useState<Article | null>(null); <<>> is null, <<a>> an article
    isOffline,          \* App: useState(false)
    isSearchOpen,       \* App: useState(false)
    showInstallPrompt,  \* App: useState(false)
    showInstallButton,  \* App: useState(true)
    promptTimer,        \* App: the 5 s timer of the install effect
    query,              \* SearchDialog: useState("")
    isVisible,          \* InstallPrompt: useState(false)
    visibleTimer,       \* InstallPrompt: the 2 s timer of its effect
    pending,            \* promises of share / clipboard calls not yet settled
    unhandled,          \* a promise rejection no handler caught has happened
    emitted,            \* the toasts the last step emitted
    lastOp,             \* the handler the last step ran, and its argument
    nEvents,            \* number of user and browser events handled so far
    view,               \* what the last render computed and displays
    toggles,            \* per article id, the number of handleBookmark calls, modulo 2
    boot,               \* main.tsx: the page, the script's progress and what it registered
    clock,              \* the serverless functions: what Date.now() returns
    call                \* the serverless functions: the last invocation; <<>> is none

vars == <<articles, activeCategory, selectedArticle, isOffline, isSearchOpen,
          showInstallPrompt, showInstallButton, promptTimer, query, isVisible,
          visibleTimer, pending, unhandled, emitted, lastOp, nEvents, view,
          toggles, boot, clock, call>>

\* the state of the mounted application
appVars == <<articles, activeCategory, selectedArticle, isOffline, isSearchOpen,
             showInstallPrompt, showInstallButton, promptTimer, query, isVisible,
             visibleTimer, pending, unhandled, emitted, lastOp, nEvents, view,
             toggles>>

-----------------------------------------------------------------------------
(* Bounds of the model. *)

\* user and browser events in one run of Spec
MaxEvents == 3
\* share / clipboard promises in flight at once
MaxPending == 1
\* length of the long two-kind collections PureInit draws
MaxLen == 10
\* length of the short collections over every kind PureInit draws
MaxShort == 3
\* the last value of Date.now() in one run of FunctionsSpec
MaxClock == 2
MaxBatch == 2

(* Program constants. *)

\* SearchDialog: .slice(0, 8)
MaxResults == 8

-----------------------------------------------------------------------------
(* JavaScript strings.  A field holds a string literal; CharTable gives the  *)
(* characters of every literal the model uses, and the string methods work  *)
(* on those characters.                                                     *)

CharTable ==
    ("Breaking: Major Economic Policy Changes Announced for 2025" :> <<"B", "r", "e", "a", "k", "i", "n", "g", ":", " ", "M", "a", "j", "o", "r", " ", "E", "c", "o", "n", "o", "m", "i", "c", " ", "P", "o", "l", "i", "c", "y", " ", "C", "h", "a", "n", "g", "e", "s", " ", "A", "n", "n", "o", "u", "n", "c", "e", "d", " ", "f", "o", "r", " ", "2", "0", "2", "5">>)
 @@ ("The government has unveiled comprehensive economic reforms that will reshape the business landscape across South Africa." :> <<"T", "h", "e", " ", "g", "o", "v", "e", "r", "n", "m", "e", "n", "t", " ", "h", "a", "s", " ", "u", "n", "v", "e", "i", "l", "e", "d", " ", "c", "o", "m", "p", "r", "e", "h", "e", "n", "s", "i", "v", "e", " ", "e", "c", "o", "n", "o", "m", "i", "c", " ", "r", "e", "f", "o", "r", "m", "s", " ", "t", "h", "a", "t", " ", "w", "i", "l", "l", " ", "r", "e", "s", "h", "a", "p", "e", " ", "t", "h", "e", " ", "b", "u", "s", "i", "n", "e", "s", "s", " ", "l", "a", "n", "d", "s", "c", "a", "p", "e", " ", "a", "c", "r", "o", "s", "s", " ", "S", "o", "u", "t", "h", " ", "A", "f", "r", "i", "c", "a", ".">>)
 @@ ("breaking" :> <<"b", "r", "e", "a", "k", "i", "n", "g">>)
 @@ ("Local Business Leaders Discuss Post-Pandemic Recovery Strategies" :> <<"L", "o", "c", "a", "l", " ", "B", "u", "s", "i", "n", "e", "s", "s", " ", "L", "e", "a", "d", "e", "r", "s", " ", "D", "i", "s", "c", "u", "s", "s", " ", "P", "o", "s", "t", "-", "P", "a", "n", "d", "e", "m", "i", "c", " ", "R", "e", "c", "o", "v", "e", "r", "y", " ", "S", "t", "r", "a", "t", "e", "g", "i", "e", "s">>)
 @@ ("Industry executives share insights on navigating the new business environment and opportunities for growth." :> <<"I", "n", "d", "u", "s", "t", "r", "y", " ", "e", "x", "e", "c", "u", "t", "i", "v", "e", "s", " ", "s", "h", "a", "r", "e", " ", "i", "n", "s", "i", "g", "h", "t", "s", " ", "o", "n", " ", "n", "a", "v", "i", "g", "a", "t", "i", "n", "g", " ", "t", "h", "e", " ", "n", "e", "w", " ", "b", "u", "s", "i", "n", "e", "s", "s", " ", "e", "n", "v", "i", "r", "o", "n", "m", "e", "n", "t", " ", "a", "n", "d", " ", "o", "p", "p", "o", "r", "t", "u", "n", "i", "t", "i", "e", "s", " ", "f", "o", "r", " ", "g", "r", "o", "w", "t", "h", ".">>)
 @@ ("business" :> <<"b", "u", "s", "i", "n", "e", "s", "s">>)
 @@ ("Rugby World Cup Preparations Intensify as Team Finalizes Squad" :> <<"R", "u", "g", "b", "y", " ", "W", "o", "r", "l", "d", " ", "C", "u", "p", " ", "P", "r", "e", "p", "a", "r", "a", "t", "i", "o", "n", "s", " ", "I", "n", "t", "e", "n", "s", "i", "f", "y", " ", "a", "s", " ", "T", "e", "a", "m", " ", "F", "i", "n", "a", "l", "i", "z", "e", "s", " ", "S", "q", "u", "a", "d">>)
 @@ ("The national rugby team is making final preparations with key player selections announced ahead of the championship." :> <<"T", "h", "e", " ", "n", "a", "t", "i", "o", "n", "a", "l", " ", "r", "u", "g", "b", "y", " ", "t", "e", "a", "m", " ", "i", "s", " ", "m", "a", "k", "i", "n", "g", " ", "f", "i", "n", "a", "l", " ", "p", "r", "e", "p", "a", "r", "a", "t", "i", "o", "n", "s", " ", "w", "i", "t", "h", " ", "k", "e", "y", " ", "p", "l", "a", "y", "e", "r", " ", "s", "e", "l", "e", "c", "t", "i", "o", "n", "s", " ", "a", "n", "n", "o", "u", "n", "c", "e", "d", " ", "a", "h", "e", "a", "d", " ", "o", "f", " ", "t", "h", "e", " ", "c", "h", "a", "m", "p", "i", "o", "n", "s", "h", "i", "p", ".">>)
 @@ ("sport" :> <<"s", "p", "o", "r", "t">>)
 @@ ("Parliamentary Debate on Education Reform Draws Public Interest" :> <<"P", "a", "r", "l", "i", "a", "m", "e", "n", "t", "a", "r", "y", " ", "D", "e", "b", "a", "t", "e", " ", "o", "n", " ", "E", "d", "u", "c", "a", "t", "i", "o", "n", " ", "R", "e", "f", "o", "r", "m", " ", "D", "r", "a", "w", "s", " ", "P", "u", "b", "l", "i", "c", " ", "I", "n", "t", "e", "r", "e", "s", "t">>)
 @@ ("Proposed changes to the education system spark heated discussions among politicians and education experts." :> <<"P", "r", "o", "p", "o", "s", "e", "d", " ", "c", "h", "a", "n", "g", "e", "s", " ", "t", "o", " ", "t", "h", "e", " ", "e", "d", "u", "c", "a", "t", "i", "o", "n", " ", "s", "y", "s", "t", "e", "m", " ", "s", "p", "a", "r", "k", " ", "h", "e", "a", "t", "e", "d", " ", "d", "i", "s", "c", "u", "s", "s", "i", "o", "n", "s", " ", "a", "m", "o", "n", "g", " ", "p", "o", "l", "i", "t", "i", "c", "i", "a", "n", "s", " ", "a", "n", "d", " ", "e", "d", "u", "c", "a", "t", "i", "o", "n", " ", "e", "x", "p", "e", "r", "t", "s", ".">>)
 @@ ("politics" :> <<"p", "o", "l", "i", "t", "i", "c", "s">>)
 @@ ("Fashion Week Showcases Sustainable Design Trends" :> <<"F", "a", "s", "h", "i", "o", "n", " ", "W", "e", "e", "k", " ", "S", "h", "o", "w", "c", "a", "s", "e", "s", " ", "S", "u", "s", "t", "a", "i", "n", "a", "b", "l", "e", " ", "D", "e", "s", "i", "g", "n", " ", "T", "r", "e", "n", "d", "s">>)
 @@ ("Local designers embrace eco-friendly materials and ethical production methods in their latest collections." :> <<"L", "o", "c", "a", "l", " ", "d", "e", "s", "i", "g", "n", "e", "r", "s", " ", "e", "m", "b", "r", "a", "c", "e", " ", "e", "c", "o", "-", "f", "r", "i", "e", "n", "d", "l", "y", " ", "m", "a", "t", "e", "r", "i", "a", "l", "s", " ", "a", "n", "d", " ", "e", "t", "h", "i", "c", "a", "l", " ", "p", "r", "o", "d", "u", "c", "t", "i", "o", "n", " ", "m", "e", "t", "h", "o", "d", "s", " ", "i", "n", " ", "t", "h", "e", "i", "r", " ", "l", "a", "t", "e", "s", "t", " ", "c", "o", "l", "l", "e", "c", "t", "i", "o", "n", "s", ".">>)
 @@ ("lifestyle" :> <<"l", "i", "f", "e", "s", "t", "y", "l", "e">>)
 @@ ("Tech Innovation Hub Launches New Startup Accelerator Program" :> <<"T", "e", "c", "h", " ", "I", "n", "n", "o", "v", "a", "t", "i", "o", "n", " ", "H", "u", "b", " ", "L", "a", "u", "n", "c", "h", "e", "s", " ", "N", "e", "w", " ", "S", "t", "a", "r", "t", "u", "p", " ", "A", "c", "c", "e", "l", "e", "r", "a", "t", "o", "r", " ", "P", "r", "o", "g", "r", "a", "m">>)
 @@ ("Local entrepreneurs gain access to mentorship, funding, and resources through the new initiative." :> <<"L", "o", "c", "a", "l", " ", "e", "n", "t", "r", "e", "p", "r", "e", "n", "e", "u", "r", "s", " ", "g", "a", "i", "n", " ", "a", "c", "c", "e", "s", "s", " ", "t", "o", " ", "m", "e", "n", "t", "o", "r", "s", "h", "i", "p", ",", " ", "f", "u", "n", "d", "i", "n", "g", ",", " ", "a", "n", "d", " ", "r", "e", "s", "o", "u", "r", "c", "e", "s", " ", "t", "h", "r", "o", "u", "g", "h", " ", "t", "h", "e", " ", "n", "e", "w", " ", "i", "n", "i", "t", "i", "a", "t", "i", "v", "e", ".">>)
 @@ ("technology" :> <<"t", "e", "c", "h", "n", "o", "l", "o", "g", "y">>)
 @@ ("home" :> <<"h", "o", "m", "e">>)
 @@ ("news" :> <<"n", "e", "w", "s">>)
 @@ ("opinion" :> <<"o", "p", "i", "n", "i", "o", "n">>)
 @@ ("Breaking news" :> <<"B", "r", "e", "a", "k", "i", "n", "g", " ", "n", "e", "w", "s">>)
 @@ ("Election results" :> <<"E", "l", "e", "c", "t", "i", "o", "n", " ", "r", "e", "s", "u", "l", "t", "s">>)
 @@ ("Business updates" :> <<"B", "u", "s", "i", "n", "e", "s", "s", " ", "u", "p", "d", "a", "t", "e", "s">>)
 @@ ("Sports scores" :> <<"S", "p", "o", "r", "t", "s", " ", "s", "c", "o", "r", "e", "s">>)
 @@ ("Breaking" :> <<"B", "r", "e", "a", "k", "i", "n", "g">>)
 @@ ("Politics" :> <<"P", "o", "l", "i", "t", "i", "c", "s">>)
 @@ ("Business" :> <<"B", "u", "s", "i", "n", "e", "s", "s">>)
 @@ ("Sport" :> <<"S", "p", "o", "r", "t">>)
 @@ ("" :> <<>>)
 @@ (" " :> <<" ">>)
 @@ ("   " :> <<" ", " ", " ">>)
 @@ ("rugby" :> <<"r", "u", "g", "b", "y">>)
 @@ ("RUGBY" :> <<"R", "U", "G", "B", "Y">>)
 @@ (" rugby" :> <<" ", "r", "u", "g", "b", "y">>)
 @@ ("rugby " :> <<"r", "u", "g", "b", "y", " ">>)
 @@ ("zzz" :> <<"z", "z", "z">>)
 @@ ("u" :> <<"u">>)
 @@ ("Rugby Cup" :> <<"R", "u", "g", "b", "y", " ", "C", "u", "p">>)
 @@ ("squad" :> <<"s", "q", "u", "a", "d">>)
 @@ ("Budget" :> <<"B", "u", "d", "g", "e", "t">>)
 @@ ("rugby fans" :> <<"r", "u", "g", "b", "y", " ", "f", "a", "n", "s">>)
 @@ ("Vote" :> <<"V", "o", "t", "e">>)
 @@ ("poll" :> <<"p", "o", "l", "l">>)
 @@ ("Home" :> <<"H", "o", "m", "e">>)

StringLits == DOMAIN CharTable

UpperCaseLetters == <<"A", "B", "C", "D", "E", "F", "G", "H", "I", "J", "K", "L", "M",
                      "N", "O", "P", "Q", "R", "S", "T", "U", "V", "W", "X", "Y", "Z">>

LowerCaseLetters == <<"a", "b", "c", "d", "e", "f", "g", "h", "i", "j", "k", "l", "m",
                      "n", "o", "p", "q", "r", "s", "t", "u", "v", "w", "x", "y", "z">>

\* the whitespace String.prototype.trim removes (those the literals can hold)
WhiteSpace == {" ", "\t", "\n"}

ToLowerCaseChar(c) ==
    IF \E i \in 1..Len(UpperCaseLetters) : UpperCaseLetters[i] = c
    THEN LowerCaseLetters[CHOOSE i \in 1..Len(UpperCaseLetters) : UpperCaseLetters[i] = c]
    ELSE c

\* String.prototype.toLowerCase, on characters
ToLowerCaseChars(cs) == [i \in 1..Len(cs) |-> ToLowerCaseChar(cs[i])]

\* String.prototype.trim, on characters
TrimChars(cs) ==
    LET keep == {i \in 1..Len(cs) : cs[i] \notin WhiteSpace}
    IN  IF keep = {} THEN <<>>
        ELSE SubSeq(cs, CHOOSE i \in keep : \A j \in keep : i <= j,
                        CHOOSE i \in keep : \A j \in keep : j <= i)

\* String.prototype.includes, on characters
IncludesChars(hay, needle) ==
    \E i \in 0..(Len(hay) - Len(needle)) : SubSeq(hay, i + 1, i + Len(needle)) = needle

\* s.toLowerCase().includes(q.toLowerCase()) for every pair of literals
LowerIncludes ==
    [s \in StringLits, q \in StringLits |->
        IncludesChars(ToLowerCaseChars(CharTable[s]), ToLowerCaseChars(CharTable[q]))]

\* the truth value of q.trim(): a non-empty string is truthy
TrimTruthy == [q \in StringLits |-> TrimChars(CharTable[q]) # <<>>]

-----------------------------------------------------------------------------
(* The seed collection. *)

Article(id, title, excerpt, category, author, publishedAt, readTime, isBookmarked) ==
    [id |-> id, title |-> title, excerpt |-> excerpt, category |-> category,
     author |-> author, publishedAt |-> publishedAt, readTime |-> readTime,
     isBookmarked |-> isBookmarked]

\* content and imageUrl are display-only text no modelled operation reads or
\* writes; the records leave them out.
mockArticles == <<
    Article("1", "Breaking: Major Economic Policy Changes Announced for 2025",
            "The government has unveiled comprehensive economic reforms that will reshape the business landscape across South Africa.",
            "breaking", "Sarah Johnson", "2024-12-18T08:30:00Z", "4 min read", FALSE),
    Article("2", "Local Business Leaders Discuss Post-Pandemic Recovery Strategies",
            "Industry executives share insights on navigating the new business environment and opportunities for growth.",
            "business", "Michael Chen", "2024-12-18T06:15:00Z", "6 min read", TRUE),
    Article("3", "Rugby World Cup Preparations Intensify as Team Finalizes Squad",
            "The national rugby team is making final preparations with key player selections announced ahead of the championship.",
            "sport", "David Thompson", "2024-12-17T14:20:00Z", "3 min read", FALSE),
    Article("4", "Parliamentary Debate on Education Reform Draws Public Interest",
            "Proposed changes to the education system spark heated discussions among politicians and education experts.",
            "politics", "Anna Williams", "2024-12-17T11:45:00Z", "5 min read", FALSE),
    Article("5", "Fashion Week Showcases Sustainable Design Trends",
            "Local designers embrace eco-friendly materials and ethical production methods in their latest collections.",
            "lifestyle", "Emma Davis", "2024-12-16T16:30:00Z", "4 min read", TRUE),
    Article("6", "Tech Innovation Hub Launches New Startup Accelerator Program",
            "Local entrepreneurs gain access to mentorship, funding, and resources through the new initiative.",
            "technology", "James Wilson", "2024-12-16T10:00:00Z", "3 min read", FALSE) >>

\* Navigation: the ids of the category list
categories == <<"home", "breaking", "news", "politics", "business", "sport",
                "lifestyle", "technology", "opinion">>

\* SearchDialog: useState([...]) of recent searches
recentSearches == <<"Breaking news", "Election results", "Business updates", "Sports scores">>

\* SearchDialog: the trending topics
trendingTopics == <<"Breaking", "Politics", "Business", "Sport">>

Range(s) == {s[i] : i \in 1..Len(s)}

-----------------------------------------------------------------------------
(* The derived views, computed on every render. *)

\* Array.prototype.slice(from, to) with 0 <= from <= to
Slice(s, from, to) == SubSeq(s, from + 1, IF to < Len(s) THEN to ELSE Len(s))

\* faulty variant: the article shown as featured left out of the filtered list
filteredArticles_SkipsFeatured(arts, cat) ==
    LET kept == IF cat = "home"
                THEN arts
                ELSE SelectSeq(arts, LAMBDA article : article.category = cat)
    IN  SubSeq(kept, 2, Len(kept))

\* faulty variant: the "home" sentinel forgotten, "home" filtered like any category
filteredArticles_NoSentinel(arts, cat) ==
    SelectSeq(arts, LAMBDA article : article.category = cat)

\* App: const filteredArticles
filteredArticles(arts, cat) ==
    IF cat = "home"
    THEN arts
    ELSE SelectSeq(arts, LAMBDA article : article.category = cat)

\* faulty variant: the featured article read at index 1, the second element
featuredArticle_Second(filtered) == IF Len(filtered) >= 2 THEN <<filtered[2]>> ELSE <<>>

\* App: const featuredArticle = filteredArticles[0]; <<>> is undefined
featuredArticle(filtered) == IF Len(filtered) >= 1 THEN <<filtered[1]>> ELSE <<>>

\* faulty variant: slice(0) for slice(1)
regularArticles_FromFirst(filtered) == Slice(filtered, 0, Len(filtered))

\* App: const regularArticles = filteredArticles.slice(1)
regularArticles(filtered) == Slice(filtered, 1, Len(filtered))

\* faulty variant: the test negated
savedArticles_Negated(arts) == SelectSeq(arts, LAMBDA article : ~article.isBookmarked)

\* App: const savedArticles
savedArticles(arts) == SelectSeq(arts, LAMBDA article : article.isBookmarked)

\* SearchDialog: the predicate of the filter of const filteredArticles
matchesQuery(article, q) ==
    \/ LowerIncludes[article.title, q]
    \/ LowerIncludes[article.excerpt, q]
    \/ LowerIncludes[article.category, q]

\* faulty variant: the .slice(0, 8) forgotten
searchFilteredArticles_NoCap(arts, q) ==
    IF TrimTruthy[q]
    THEN SelectSeq(arts, LAMBDA article : matchesQuery(article, q))
    ELSE <<>>

\* faulty variant: the query tested without .trim()
searchFilteredArticles_NoTrim(arts, q) ==
    IF q # ""
    THEN Slice(SelectSeq(arts, LAMBDA article : matchesQuery(article, q)), 0, MaxResults)
    ELSE <<>>

\* SearchDialog: const filteredArticles
searchFilteredArticles(arts, q) ==
    IF TrimTruthy[q]
    THEN Slice(SelectSeq(arts, LAMBDA article : matchesQuery(article, q)), 0, MaxResults)
    ELSE <<>>

\* faulty variant: if (selectedArticle) before if (isOffline)
Screen_ArticleFirst(off, sel) ==
    IF sel # <<>> THEN "ARTICLE"
    ELSE IF off THEN "OFFLINE"
    ELSE "LIST"

\* App: the order of the returns of the render, if (isOffline) before if (selectedArticle)
Screen(off, sel) ==
    IF off THEN "OFFLINE"
    ELSE IF sel # <<>> THEN "ARTICLE"
    ELSE "LIST"

\* What one render of App and of the components it mounts computes and shows.
Render(arts, cat, sel, off, q, vis) ==
    LET scr      == Screen(off, sel)
        filtered == filteredArticles(arts, cat)
        featured == featuredArticle(filtered)
        regular  == regularArticles(filtered)
    IN  [screen        |-> scr,
         filtered      |-> filtered,
         featured      |-> featured,
         regular       |-> regular,
         saved         |-> savedArticles(arts),
         \* SearchDialog is mounted by the LIST and the ARTICLE screen
         results       |-> IF scr # "OFFLINE" THEN searchFilteredArticles(arts, q) ELSE <<>>,
         recentPanel   |-> scr # "OFFLINE" /\ ~TrimTruthy[q],
         resultsPanel  |-> scr # "OFFLINE" /\ TrimTruthy[q],
         \* the three sections of <main> in the LIST screen
         featuredShown |-> scr = "LIST" /\ featured # <<>>,
         gridShown     |-> scr = "LIST" /\ Len(regular) > 0,
         emptyState    |-> scr = "LIST" /\ Len(filtered) = 0,
         \* ArticleView's article prop
         shown         |-> IF scr = "ARTICLE" THEN sel ELSE <<>>,
         \* InstallPrompt is mounted by the LIST screen only
         bannerVisible |-> scr = "LIST" /\ vis]

\* the view before the first render (PureSpec only)
NotRendered ==
    [screen |-> "NONE", filtered |-> <<>>, featured |-> <<>>, regular |-> <<>>,
     saved |-> <<>>, results |-> <<>>, recentPanel |-> FALSE, resultsPanel |-> FALSE,
     featuredShown |-> FALSE, gridShown |-> FALSE, emptyState |-> FALSE,
     shown |-> <<>>, bannerVisible |-> FALSE]

-----------------------------------------------------------------------------
(* The re-render and the effects that follow every handler.                 *)

\* SearchDialog's query after the render.  The three returns of App put
\* SearchDialog at another place of the element tree (or nowhere): a change
\* of screen unmounts it, and the next mount starts from useState("").
\* q: the query the handler leaves if the dialog stays mounted.
queryAfterRender(q) ==
    IF Screen(isOffline', selectedArticle') # view.screen THEN "" ELSE q

\* faulty variant: the effect returns no cleanup, the timer set before the
\* installation stays
installEffect_NoCleanup(pt) == pt

\* App: the effect on [showInstallButton]: clearTimeout, then a new 5 s timer
\* whose closure holds the new showInstallButton.
\* pt: the timer the handler leaves if the effect does not re-run.
installEffect(pt) ==
    IF showInstallButton' # showInstallButton
    THEN (IF showInstallButton' THEN "show" ELSE "idle")
    ELSE pt

\* faulty variant: the effect without its else branch, isVisible kept when
\* showPrompt turns false
visibleAfterEffect_NoReset(vis) ==
    IF Screen(isOffline', selectedArticle') # "LIST" \/ view.screen # "LIST" THEN FALSE
    ELSE vis

\* InstallPrompt: isVisible after the render and the effect on [showPrompt].
\* InstallPrompt is mounted by the LIST screen only; a mount starts from
\* useState(false), and the effect sets it false when showPrompt is false.
\* vis: the value the handler leaves if nothing of that happens.
visibleAfterEffect(vis) ==
    IF Screen(isOffline', selectedArticle') # "LIST" \/ view.screen # "LIST" THEN FALSE
    ELSE IF showInstallPrompt' # showInstallPrompt /\ ~showInstallPrompt' THEN FALSE
    ELSE vis

\* InstallPrompt: the 2 s timer after the effect on [showPrompt]: cleared by
\* the cleanup (unmount, or showPrompt changed), set when showPrompt is true.
\* vt: the timer the handler leaves if the effect does not re-run.
visibleTimerAfterEffect(vt) ==
    IF Screen(isOffline', selectedArticle') # "LIST" THEN FALSE
    ELSE IF view.screen # "LIST" \/ showInstallPrompt' # showInstallPrompt
    THEN showInstallPrompt'
    ELSE vt

\* the end of every handler: state of the components, then the render
Commit(q, vis, pt, vt) ==
    /\ query' = queryAfterRender(q)
    /\ promptTimer' = installEffect(pt)
    /\ isVisible' = visibleAfterEffect(vis)
    /\ visibleTimer' = visibleTimerAfterEffect(vt)
    /\ view' = Render(articles', activeCategory', selectedArticle', isOffline',
                      query', isVisible')
    \* no handler of App touches the page's script state or calls a function
    /\ UNCHANGED <<boot, clock, call>>

\* the tally of handleBookmark calls after calls with articleIds, in order
RECURSIVE Tallied(_, _)
Tallied(tally, articleIds) ==
    IF articleIds = <<>> THEN tally
    ELSE Tallied(IF Head(articleIds) \in DOMAIN tally
                 THEN [tally EXCEPT ![Head(articleIds)] = (@ + 1) % 2]
                 ELSE tally,
                 Tail(articleIds))

\* a user or browser event: counted, and recorded as the last handler run
Event(op, arg) ==
    /\ nEvents < MaxEvents
    /\ nEvents' = nEvents + 1
    /\ lastOp' = [op |-> op, arg |-> arg]
    /\ toggles' = IF op = "toggleBookmark" THEN Tallied(toggles, <<arg>>) ELSE toggles

\* a timer or a promise settling: recorded, not counted
Callback(op) ==
    /\ nEvents' = nEvents
    /\ lastOp' = [op |-> op, arg |-> ""]
    /\ toggles' = toggles

NoToast == emitted' = <<>>

Toast(msg) == emitted' = <<msg>>

-----------------------------------------------------------------------------
(* The article store. *)

\* faulty variant: the flag set, not flipped
toggleBookmark_SetTrue(prev, articleId) ==
    [i \in 1..Len(prev) |->
        IF prev[i].id = articleId
        THEN [prev[i] EXCEPT !.isBookmarked = TRUE]
        ELSE prev[i]]

\* faulty variant: the test of the id forgotten, every article flipped
toggleBookmark_All(prev, articleId) ==
    [i \in 1..Len(prev) |-> [prev[i] EXCEPT !.isBookmarked = ~prev[i].isBookmarked]]

\* faulty variant: un-bookmarking removes the article from the collection
toggleBookmark_Drop(prev, articleId) ==
    SelectSeq([i \in 1..Len(prev) |->
                  IF prev[i].id = articleId
                  THEN [prev[i] EXCEPT !.isBookmarked = ~prev[i].isBookmarked]
                  ELSE prev[i]],
              LAMBDA article : article.id # articleId \/ article.isBookmarked)

\* handleBookmark: the updater passed to setArticles, prev.map(...)
toggleBookmark(prev, articleId) ==
    [i \in 1..Len(prev) |->
        IF prev[i].id = articleId
        THEN [prev[i] EXCEPT !.isBookmarked = ~prev[i].isBookmarked]
        ELSE prev[i]]

\* Array.prototype.find by id; <<>> is undefined
FindById(arts, articleId) ==
    LET hits == {i \in 1..Len(arts) : arts[i].id = articleId}
    IN  IF hits = {} THEN <<>>
        ELSE <<arts[CHOOSE i \in hits : \A j \in hits : i <= j]>>

\* faulty variant: the toast emitted without the test of the article found
bookmarkToast_Always(arts, articleId) ==
    LET article == FindById(arts, articleId)
    IN  <<IF article # <<>> /\ article[1].isBookmarked
          THEN "Removed from saved articles"
          ELSE "Article saved for offline reading">>

\* handleBookmark: the toast, from the article found in the rendered collection
bookmarkToast(arts, articleId) ==
    LET article == FindById(arts, articleId)
    IN  IF article # <<>>
        THEN <<IF article[1].isBookmarked
               THEN "Removed from saved articles"
               ELSE "Article saved for offline reading">>
        ELSE <<>>

\* an id no article of the seed has
UnknownId == "99"

\* faulty variant: the offline page given the whole collection
RenderedCards_OfflineAll ==
    IF view.screen = "LIST" THEN Range(view.featured) \cup Range(view.regular)
    ELSE IF view.screen = "OFFLINE" THEN Range(articles)
    ELSE {}

\* the cards the current screen renders: each has a bookmark, a share and an
\* open control
RenderedCards ==
    IF view.screen = "LIST" THEN Range(view.featured) \cup Range(view.regular)
    ELSE IF view.screen = "OFFLINE" THEN Range(view.saved)
    ELSE {}

\* the ids handleBookmark is called with: the cards', ArticleView's article's,
\* and, called directly, an id of no article
BookmarkIds ==
    {a.id : a \in RenderedCards \cup Range(view.shown)} \cup {UnknownId}

\* the text a user types into the search box
TypedQueries == {"", "   ", "rugby", " rugby", "zzz"}

-----------------------------------------------------------------------------
(* The handlers. *)

\* Navigation.handleCategoryClick -> setActiveCategory
handleCategoryClick(categoryId) ==
    /\ view.screen = "LIST"
    /\ Event("selectCategory", categoryId)
    /\ activeCategory' = categoryId
    /\ NoToast
    /\ UNCHANGED <<articles, selectedArticle, isOffline, isSearchOpen,
                   showInstallPrompt, showInstallButton, pending, unhandled>>
    /\ Commit(query, isVisible, promptTimer, visibleTimer)

\* the "View All Articles" button of the empty state
ViewAllArticles ==
    /\ view.emptyState
    /\ Event("viewAll", "home")
    /\ activeCategory' = "home"
    /\ NoToast
    /\ UNCHANGED <<articles, selectedArticle, isOffline, isSearchOpen,
                   showInstallPrompt, showInstallButton, pending, unhandled>>
    /\ Commit(query, isVisible, promptTimer, visibleTimer)

\* ArticleCard onClick -> setSelectedArticle, in App and in OfflinePage
ArticleCardClick(article) ==
    /\ article \in RenderedCards
    /\ Event("selectArticle", article.id)
    /\ selectedArticle' = <<article>>
    /\ NoToast
    /\ UNCHANGED <<articles, activeCategory, isOffline, isSearchOpen,
                   showInstallPrompt, showInstallButton, pending, unhandled>>
    /\ Commit(query, isVisible, promptTimer, visibleTimer)

\* faulty variant: back navigation also returns to the home category
ArticleBack_ResetsCategory ==
    /\ view.screen = "ARTICLE"
    /\ Event("back", "")
    /\ selectedArticle' = <<>>
    /\ activeCategory' = "home"
    /\ NoToast
    /\ UNCHANGED <<articles, isOffline, isSearchOpen,
                   showInstallPrompt, showInstallButton, pending, unhandled>>
    /\ Commit(query, isVisible, promptTimer, visibleTimer)

\* faulty variant: onBack leaves the selected article in place
ArticleBack_KeepsSelection ==
    /\ view.screen = "ARTICLE"
    /\ Event("back", "")
    /\ NoToast
    /\ UNCHANGED <<articles, activeCategory, selectedArticle, isOffline, isSearchOpen,
                   showInstallPrompt, showInstallButton, pending, unhandled>>
    /\ Commit(query, isVisible, promptTimer, visibleTimer)

\* ArticleView onBack -> setSelectedArticle(null)
ArticleBack ==
    /\ view.screen = "ARTICLE"
    /\ Event("back", "")
    /\ selectedArticle' = <<>>
    /\ NoToast
    /\ UNCHANGED <<articles, activeCategory, isOffline, isSearchOpen,
                   showInstallPrompt, showInstallButton, pending, unhandled>>
    /\ Commit(query, isVisible, promptTimer, visibleTimer)

\* faulty variant: the click on the control also reaches the card's onClick
\* (e.stopPropagation() left out)
handleBookmark_Propagates(articleId) ==
    /\ articleId \in BookmarkIds
    /\ Event("toggleBookmark", articleId)
    /\ articles' = toggleBookmark(articles, articleId)
    /\ emitted' = bookmarkToast(articles, articleId)
    /\ selectedArticle' = FindById(articles, articleId)
    /\ UNCHANGED <<activeCategory, isOffline, isSearchOpen,
                   showInstallPrompt, showInstallButton, pending, unhandled>>
    /\ Commit(query, isVisible, promptTimer, visibleTimer)

\* App.handleBookmark
handleBookmark(articleId) ==
    /\ articleId \in BookmarkIds
    /\ Event("toggleBookmark", articleId)
    /\ articles' = toggleBookmark(articles, articleId)
    /\ emitted' = bookmarkToast(articles, articleId)
    /\ UNCHANGED <<activeCategory, selectedArticle, isOffline, isSearchOpen,
                   showInstallPrompt, showInstallButton, pending, unhandled>>
    /\ Commit(query, isVisible, promptTimer, visibleTimer)

\* faulty variant: setArticles(articles.map(...)), every update computed from
\* the rendered collection, the last one wins
applyUpdaters_FromClosure(prev, articleIds) ==
    IF articleIds = <<>> THEN prev
    ELSE toggleBookmark(prev, articleIds[Len(articleIds)])

\* the updaters that calls of handleBookmark queued before a render, applied by
\* that render in the order of the calls, each to the result of the one before
RECURSIVE applyUpdaters(_, _)
applyUpdaters(prev, articleIds) ==
    IF articleIds = <<>> THEN prev
    ELSE applyUpdaters(toggleBookmark(prev, Head(articleIds)), Tail(articleIds))

\* the toasts of calls of handleBookmark made before a render: each call's
\* articles.find reads the collection of the render its closure belongs to
RECURSIVE bookmarkToasts(_, _)
bookmarkToasts(arts, articleIds) ==
    IF articleIds = <<>> THEN <<>>
    ELSE bookmarkToast(arts, Head(articleIds)) \o bookmarkToasts(arts, Tail(articleIds))

\* the calls of handleBookmark that one render's closure can receive before
\* the next render
Batches == UNION {[1..n -> BookmarkIds] : n \in 2..MaxBatch}

\* App.handleBookmark called with articleIds[1], articleIds[2], ... before the
\* component renders again (the clicks dispatched in one task; the updates are
\* flushed when the task ends)
handleBookmarks(articleIds) ==
    /\ articleIds \in Batches
    /\ nEvents + Len(articleIds) <= MaxEvents
    /\ nEvents' = nEvents + Len(articleIds)
    /\ lastOp' = [op |-> "toggleBookmarks", arg |-> articleIds]
    /\ toggles' = Tallied(toggles, articleIds)
    /\ articles' = applyUpdaters(articles, articleIds)
    /\ emitted' = bookmarkToasts(articles, articleIds)
    /\ UNCHANGED <<activeCategory, selectedArticle, isOffline, isSearchOpen,
                   showInstallPrompt, showInstallButton, pending, unhandled>>
    /\ Commit(query, isVisible, promptTimer, visibleTimer)

\* faulty variant: leaving the offline page also closes the selected article
OfflineLeave_ClearsSelection(button) ==
    /\ view.screen = "OFFLINE"
    /\ Event(button, "")
    /\ isOffline' = FALSE
    /\ selectedArticle' = <<>>
    /\ NoToast
    /\ UNCHANGED <<articles, activeCategory, isSearchOpen,
                   showInstallPrompt, showInstallButton, pending, unhandled>>
    /\ Commit(query, isVisible, promptTimer, visibleTimer)

\* OfflinePage onRetry / onBack -> setIsOffline(false)
OfflineLeave(button) ==
    /\ view.screen = "OFFLINE"
    /\ Event(button, "")
    /\ isOffline' = FALSE
    /\ NoToast
    /\ UNCHANGED <<articles, activeCategory, selectedArticle, isSearchOpen,
                   showInstallPrompt, showInstallButton, pending, unhandled>>
    /\ Commit(query, isVisible, promptTimer, visibleTimer)

\* the "Preview Offline Mode" button in the header of the articles grid
PreviewOffline ==
    /\ view.gridShown
    /\ Event("previewOffline", "")
    /\ isOffline' = TRUE
    /\ NoToast
    /\ UNCHANGED <<articles, activeCategory, selectedArticle, isSearchOpen,
                   showInstallPrompt, showInstallButton, pending, unhandled>>
    /\ Commit(query, isVisible, promptTimer, visibleTimer)

\* faulty variant: the handler of "online" written as a copy of handleOffline
handleOnline_SetsOffline ==
    /\ Event("online", "")
    /\ isOffline' = TRUE
    /\ NoToast
    /\ UNCHANGED <<articles, activeCategory, selectedArticle, isSearchOpen,
                   showInstallPrompt, showInstallButton, pending, unhandled>>
    /\ Commit(query, isVisible, promptTimer, visibleTimer)

\* window "online" event -> handleOnline
handleOnline ==
    /\ Event("online", "")
    /\ isOffline' = FALSE
    /\ NoToast
    /\ UNCHANGED <<articles, activeCategory, selectedArticle, isSearchOpen,
                   showInstallPrompt, showInstallButton, pending, unhandled>>
    /\ Commit(query, isVisible, promptTimer, visibleTimer)

\* window "offline" event -> handleOffline
handleOffline ==
    /\ Event("offline", "")
    /\ isOffline' = TRUE
    /\ NoToast
    /\ UNCHANGED <<articles, activeCategory, selectedArticle, isSearchOpen,
                   showInstallPrompt, showInstallButton, pending, unhandled>>
    /\ Commit(query, isVisible, promptTimer, visibleTimer)

\* Header onSearchClick -> setIsSearchOpen(true); Header is in LIST and ARTICLE
OpenSearch ==
    /\ view.screen # "OFFLINE"
    /\ Event("openSearch", "")
    /\ isSearchOpen' = TRUE
    /\ NoToast
    /\ UNCHANGED <<articles, activeCategory, selectedArticle, isOffline,
                   showInstallPrompt, showInstallButton, pending, unhandled>>
    /\ Commit(query, isVisible, promptTimer, visibleTimer)

\* SearchDialog onClose -> setIsSearchOpen(false)
CloseSearch ==
    /\ view.screen # "OFFLINE" /\ isSearchOpen
    /\ Event("closeSearch", "")
    /\ isSearchOpen' = FALSE
    /\ NoToast
    /\ UNCHANGED <<articles, activeCategory, selectedArticle, isOffline,
                   showInstallPrompt, showInstallButton, pending, unhandled>>
    /\ Commit(query, isVisible, promptTimer, visibleTimer)

\* SearchDialog: the input's onChange -> setQuery(e.target.value)
SetQuery(text) ==
    /\ view.screen # "OFFLINE" /\ isSearchOpen
    /\ Event("setQuery", text)
    /\ NoToast
    /\ UNCHANGED <<articles, activeCategory, selectedArticle, isOffline, isSearchOpen,
                   showInstallPrompt, showInstallButton, pending, unhandled>>
    /\ Commit(text, isVisible, promptTimer, visibleTimer)

\* SearchDialog.handleRecentSearchClick, from a recent search or a trending topic
handleRecentSearchClick(searchTerm) ==
    /\ isSearchOpen /\ view.recentPanel
    /\ Event("recentSearch", searchTerm)
    /\ NoToast
    /\ UNCHANGED <<articles, activeCategory, selectedArticle, isOffline, isSearchOpen,
                   showInstallPrompt, showInstallButton, pending, unhandled>>
    /\ Commit(searchTerm, isVisible, promptTimer, visibleTimer)

\* faulty variant: onClose() left out, the dialog stays open
handleArticleClick_StaysOpen(article) ==
    /\ isSearchOpen /\ view.resultsPanel
    /\ article \in Range(view.results)
    /\ Event("searchSelect", article.id)
    /\ selectedArticle' = <<article>>
    /\ NoToast
    /\ UNCHANGED <<articles, activeCategory, isOffline, isSearchOpen,
                   showInstallPrompt, showInstallButton, pending, unhandled>>
    /\ Commit("", isVisible, promptTimer, visibleTimer)

\* SearchDialog.handleArticleClick: onArticleClick(article); onClose(); setQuery("")
handleArticleClick(article) ==
    /\ isSearchOpen /\ view.resultsPanel
    /\ article \in Range(view.results)
    /\ Event("searchSelect", article.id)
    /\ selectedArticle' = <<article>>
    /\ isSearchOpen' = FALSE
    /\ NoToast
    /\ UNCHANGED <<articles, activeCategory, isOffline,
                   showInstallPrompt, showInstallButton, pending, unhandled>>
    /\ Commit("", isVisible, promptTimer, visibleTimer)

-----------------------------------------------------------------------------
(* Sharing.  navigator.share and navigator.clipboard are read at each call:  *)
(* canShare and hasClipboard are what the platform offers at that moment.    *)

RemoveAt(s, i) == SubSeq(s, 1, i - 1) \o SubSeq(s, i + 1, Len(s))

\* App.handleShare, the part that runs synchronously
shareCall(canShare, hasClipboard) ==
    IF canShare
    THEN /\ Len(pending) < MaxPending
         /\ pending' = Append(pending, "share")
         /\ NoToast
    ELSE IF hasClipboard
    THEN /\ Len(pending) < MaxPending
         /\ pending' = Append(pending, "clipboard")
         /\ NoToast
    ELSE /\ pending' = pending
         /\ Toast("Sharing not supported. Please copy the URL from your browser.")

\* ArticleCard.handleShare -> onShare(article) -> App.handleShare
handleShare(canShare, hasClipboard) ==
    /\ RenderedCards # {}
    /\ Event("share", "")
    /\ shareCall(canShare, hasClipboard)
    /\ UNCHANGED <<articles, activeCategory, selectedArticle, isOffline, isSearchOpen,
                   showInstallPrompt, showInstallButton, unhandled>>
    /\ Commit(query, isVisible, promptTimer, visibleTimer)

\* ArticleView.handleShare: navigator.share(...) with no handler attached, or
\* onShare(article) when there is no navigator.share
articleViewShare(canShare, hasClipboard) ==
    /\ view.screen = "ARTICLE"
    /\ Event("shareFromView", "")
    /\ IF canShare
       THEN /\ Len(pending) < MaxPending
            /\ pending' = Append(pending, "shareNoCatch")
            /\ NoToast
       ELSE shareCall(FALSE, hasClipboard)
    /\ UNCHANGED <<articles, activeCategory, selectedArticle, isOffline, isSearchOpen,
                   showInstallPrompt, showInstallButton, unhandled>>
    /\ Commit(query, isVisible, promptTimer, visibleTimer)

\* faulty variant: the success handler also closes the article
PromiseFulfils_ClosesArticle(i) ==
    /\ i \in 1..Len(pending)
    /\ Callback("fulfilled")
    /\ pending' = RemoveAt(pending, i)
    /\ emitted' = IF pending[i] \in {"clipboard", "clipboardAfterShare"}
                  THEN <<"Link copied to clipboard!">>
                  ELSE <<>>
    /\ selectedArticle' = <<>>
    /\ UNCHANGED <<articles, activeCategory, isOffline, isSearchOpen,
                   showInstallPrompt, showInstallButton, unhandled>>
    /\ Commit(query, isVisible, promptTimer, visibleTimer)

\* a pending promise fulfils
PromiseFulfils(i) ==
    /\ i \in 1..Len(pending)
    /\ Callback("fulfilled")
    /\ pending' = RemoveAt(pending, i)
    /\ emitted' = IF pending[i] \in {"clipboard", "clipboardAfterShare"}
                  THEN <<"Link copied to clipboard!">>
                  ELSE <<>>
    /\ UNCHANGED <<articles, activeCategory, selectedArticle, isOffline, isSearchOpen,
                   showInstallPrompt, showInstallButton, unhandled>>
    /\ Commit(query, isVisible, promptTimer, visibleTimer)

\* a pending promise rejects; hasClipboard: whether navigator.clipboard exists
\* when the catch handler of navigator.share runs
PromiseRejects(i, hasClipboard) ==
    /\ i \in 1..Len(pending)
    /\ Callback("rejected")
    /\ pending' = IF pending[i] = "share" /\ hasClipboard
                  THEN [pending EXCEPT ![i] = "clipboardAfterShare"]
                  ELSE RemoveAt(pending, i)
    /\ emitted' = IF pending[i] = "clipboard"
                  THEN <<"Unable to copy link. Please copy the URL manually.">>
                  ELSE IF pending[i] = "clipboardAfterShare"
                  THEN <<"Unable to share article. Please copy the URL manually.">>
                  ELSE <<>>
    \* no handler (ArticleView), or the catch handler throws a TypeError on
    \* navigator.clipboard.writeText of undefined
    /\ unhandled' = (unhandled \/ pending[i] = "shareNoCatch"
                               \/ (pending[i] = "share" /\ ~hasClipboard))
    /\ UNCHANGED <<articles, activeCategory, selectedArticle, isOffline, isSearchOpen,
                   showInstallPrompt, showInstallButton>>
    /\ Commit(query, isVisible, promptTimer, visibleTimer)

-----------------------------------------------------------------------------
(* Installation. *)

\* App.handleInstall, from the Header's or the SettingsDialog's install button
handleInstall ==
    /\ view.screen # "OFFLINE" /\ showInstallButton
    /\ Event("install", "")
    /\ Toast("App installed successfully!")
    /\ showInstallButton' = FALSE
    /\ showInstallPrompt' = FALSE
    /\ UNCHANGED <<articles, activeCategory, selectedArticle, isOffline, isSearchOpen,
                   pending, unhandled>>
    /\ Commit(query, isVisible, promptTimer, visibleTimer)

\* InstallPrompt.handleInstall: setIsVisible(false); onInstall()
promptInstall ==
    /\ view.bannerVisible
    /\ Event("installFromPrompt", "")
    /\ Toast("App installed successfully!")
    /\ showInstallButton' = FALSE
    /\ showInstallPrompt' = FALSE
    /\ UNCHANGED <<articles, activeCategory, selectedArticle, isOffline, isSearchOpen,
                   pending, unhandled>>
    /\ Commit(query, FALSE, promptTimer, visibleTimer)

\* InstallPrompt.handleDismiss: setIsVisible(false); onDismiss()
handleDismiss ==
    /\ view.bannerVisible
    /\ Event("dismiss", "")
    /\ NoToast
    /\ showInstallPrompt' = FALSE
    /\ UNCHANGED <<articles, activeCategory, selectedArticle, isOffline, isSearchOpen,
                   showInstallButton, pending, unhandled>>
    /\ Commit(query, FALSE, promptTimer, visibleTimer)

\* the 5 s timer of App's install effect fires
PromptTimerFires ==
    /\ promptTimer # "none"
    /\ Callback("promptTimer")
    /\ NoToast
    /\ showInstallPrompt' = (showInstallPrompt \/ promptTimer = "show")
    /\ UNCHANGED <<articles, activeCategory, selectedArticle, isOffline, isSearchOpen,
                   showInstallButton, pending, unhandled>>
    /\ Commit(query, isVisible, "none", visibleTimer)

\* the 2 s timer of InstallPrompt's effect fires
VisibleTimerFires ==
    /\ visibleTimer
    /\ Callback("visibleTimer")
    /\ NoToast
    /\ UNCHANGED <<articles, activeCategory, selectedArticle, isOffline, isSearchOpen,
                   showInstallPrompt, showInstallButton, pending, unhandled>>
    /\ Commit(query, TRUE, promptTimer, FALSE)

-----------------------------------------------------------------------------
(* main.tsx: the script that mounts the application.  The page it runs in   *)
(* decides whether document.getElementById("root") finds an element, which  *)
(* call of ReactDOM throws, if any, and which browser features exist.       *)

\* the calls of initializeApp into ReactDOM that may throw
BootThrows == {"none", "createRoot", "render"}

\* the page before the script has run
Loading(hasRoot, throws, hasServiceWorker, hasPushManager) ==
    [phase            |-> "loading",
     hasRoot          |-> hasRoot,
     throws           |-> throws,
     hasServiceWorker |-> hasServiceWorker,
     hasPushManager   |-> hasPushManager,
     initFailed       |-> FALSE,
     displayed        |-> "nothing",
     consoleErrors    |-> {},
     errorListeners   |-> FALSE,
     loadListener     |-> FALSE,
     installListeners |-> FALSE,
     loaded           |-> FALSE,
     sw               |-> "none",
     swRegistration   |-> FALSE,
     deferredPrompt   |-> "undefined"]

\* initializeApp: TRUE when it returns, FALSE when it throws
initializeAppReturns(b) == b.hasRoot /\ b.throws = "none"

\* initializePWAFeatures and setupInstallPrompt: the listeners registered
initializePWAFeatures(b) ==
    [b EXCEPT !.loadListener = b.hasServiceWorker,
              !.installListeners = TRUE]

\* the catch block of the script: the fallback written into the root element,
\* when getElementById("root") finds one
fallback(b) ==
    IF b.hasRoot THEN [b EXCEPT !.displayed = "fallback"] ELSE b

\* the script, from its first statement to the end of the try/catch
mainScript(b) ==
    LET listening == [b EXCEPT !.phase = "ran", !.errorListeners = TRUE]
    IN  IF initializeAppReturns(b)
        THEN initializePWAFeatures([listening EXCEPT !.displayed = "app"])
        ELSE fallback([listening EXCEPT
                          !.initFailed = TRUE,
                          !.consoleErrors = {"Failed to initialize application:"}])

\* the page the application of Spec runs in: a root element, nothing thrown
Booted == mainScript(Loading(TRUE, "none", FALSE, FALSE))

BootStep(b) ==
    /\ boot' = b
    /\ UNCHANGED <<clock, call>>
    /\ UNCHANGED appVars

\* the browser runs the script
RunScript ==
    /\ boot.phase = "loading"
    /\ BootStep(mainScript(boot))

\* window "load": the listener of initializePWAFeatures calls register
WindowLoad ==
    /\ boot.phase = "ran" /\ ~boot.loaded
    /\ BootStep([boot EXCEPT !.loaded = TRUE,
                             !.sw = IF boot.loadListener THEN "registering" ELSE "none"])

\* register(...).then -> setupPushNotifications(registration)
RegistrationResolves ==
    /\ boot.sw = "registering"
    /\ BootStep([boot EXCEPT !.sw = "registered",
                             !.swRegistration = boot.hasPushManager])

\* register(...).catch
RegistrationRejects ==
    /\ boot.sw = "registering"
    /\ BootStep([boot EXCEPT !.sw = "failed"])

\* setupInstallPrompt: the listener of "beforeinstallprompt"
BeforeInstallPrompt ==
    /\ boot.installListeners
    /\ BootStep([boot EXCEPT !.deferredPrompt = "event"])

\* setupInstallPrompt: the listener of "appinstalled"
AppInstalled ==
    /\ boot.installListeners
    /\ BootStep([boot EXCEPT !.deferredPrompt = "null"])

\* the listener of "unhandledrejection"
UnhandledRejection ==
    /\ boot.errorListeners
    /\ BootStep([boot EXCEPT !.consoleErrors = @ \cup {"Unhandled promise rejection:"}])

\* the listener of "error"
RuntimeError ==
    /\ boot.errorListeners
    /\ BootStep([boot EXCEPT !.consoleErrors = @ \cup {"Runtime error:"}])

\* the "Reload Page" button of the fallback: window.location.reload()
ReloadPage ==
    /\ boot.displayed = "fallback"
    /\ \E throws \in BootThrows :
          BootStep(Loading(boot.hasRoot, throws, boot.hasServiceWorker,
                           boot.hasPushManager))

-----------------------------------------------------------------------------
(* The serverless functions.  A request body is the text of the request;    *)
(* JSON values are kept with their type, as JSON.parse and the              *)
(* destructuring of its result tell them apart.                             *)

\* the characters of the e-mail addresses of the requests
EmailChars ==
    ("ann@example.com" :> <<"a","n","n","@","e","x","a","m","p","l","e",".","c","o","m">>)
 @@ ("ann@mail.example.com" :> <<"a","n","n","@","m","a","i","l",".","e","x","a","m","p","l","e",".","c","o","m">>)
 @@ ("ann@example" :> <<"a","n","n","@","e","x","a","m","p","l","e">>)
 @@ ("example.com" :> <<"e","x","a","m","p","l","e",".","c","o","m">>)
 @@ ("ann@@example.com" :> <<"a","n","n","@","@","e","x","a","m","p","l","e",".","c","o","m">>)
 @@ ("ann b@example.com" :> <<"a","n","n"," ","b","@","e","x","a","m","p","l","e",".","c","o","m">>)
 @@ ("@example.com" :> <<"@","e","x","a","m","p","l","e",".","c","o","m">>)
 @@ ("ann@.com" :> <<"a","n","n","@",".","c","o","m">>)
 @@ ("ann@example." :> <<"a","n","n","@","e","x","a","m","p","l","e",".">>)
 @@ ("ann" :> <<"a","n","n">>)

\* JavaScript values of the fields of a parsed body
Undefined == [t |-> "undefined", s |-> ""]
Null == [t |-> "null", s |-> ""]
Str(s) == [t |-> "string", s |-> s]

\* ToBoolean, as !name and a || b apply it
Truthy(v) == v.t = "string" /\ v.s # ""

\* the properties the two handlers read from a parsed body
Keys == {"name", "email", "message", "action", "scheduledFor"}

\* a JSON value: its type and, for an object, its properties
NoFields == [k \in Keys |-> Undefined]
JsonNull == [t |-> "null", fields |-> NoFields]
JsonNumber == [t |-> "number", fields |-> NoFields]
JsonString == [t |-> "string", fields |-> NoFields]
JsonObject(fields) == [t |-> "object", fields |-> fields]

\* event.body: <<>> is undefined, else the text: not JSON (raw), or the text
\* of a JSON value
NoBody == <<>>
Raw(text) == <<[kind |-> "raw", text |-> text, value |-> JsonNull]>>
Json(value) == <<[kind |-> "json", text |-> "json", value |-> value]>>

\* JSON.parse(event.body): throws a SyntaxError on undefined and on text that
\* is not JSON
JSONparse(body) ==
    IF body = NoBody \/ body[1].kind = "raw"
    THEN [throws |-> TRUE, value |-> JsonNull]
    ELSE [throws |-> FALSE, value |-> body[1].value]

\* const { ... } = value: throws a TypeError on null
DestructureThrows(value) == value.t = "null"

\* /^[^\s@]+@[^\s@]+\.[^\s@]+$/ : [^\s@]+
NoSpaceNoAt(cs) ==
    /\ Len(cs) >= 1
    /\ \A i \in 1..Len(cs) : cs[i] \notin WhiteSpace \cup {"@"}

\* faulty variant: the test for the dot and the top-level domain left out
emailRegexTest_NoTld(cs) ==
    \E p \in 1..Len(cs) :
        /\ cs[p] = "@"
        /\ NoSpaceNoAt(SubSeq(cs, 1, p - 1))
        /\ NoSpaceNoAt(SubSeq(cs, p + 1, Len(cs)))

\* emailRegex.test(email)
emailRegexTest(cs) ==
    \E p \in 1..Len(cs), d \in 1..Len(cs) :
        /\ p < d
        /\ cs[p] = "@"
        /\ cs[d] = "."
        /\ NoSpaceNoAt(SubSeq(cs, 1, p - 1))
        /\ NoSpaceNoAt(SubSeq(cs, p + 1, d - 1))
        /\ NoSpaceNoAt(SubSeq(cs, d + 1, Len(cs)))

\* const headers = { ... }
Headers(allowMethods) ==
    [allowOrigin  |-> "*",
     allowHeaders |-> "Content-Type",
     allowMethods |-> allowMethods,
     contentType  |-> "application/json"]

\* return { statusCode, headers, body }
Response(statusCode, headers, body) ==
    [statusCode |-> statusCode,
     headers    |-> headers,
     \* <<>> is the empty body '', <<o>> the text JSON.stringify(o)
     body       |-> body]

\* contact-form: exports.handler
contactFormHandler(event, now) ==
    LET respond(statusCode, body) ==
            Response(statusCode, Headers("POST, OPTIONS"), body)
        parsed  == JSONparse(event.body)
        name    == parsed.value.fields["name"]
        email   == parsed.value.fields["email"]
        message == parsed.value.fields["message"]
    IN  IF event.httpMethod = "OPTIONS" THEN respond(200, <<>>)
        ELSE IF event.httpMethod # "POST"
        THEN respond(405, <<[error   |-> "Method not allowed",
                             message |-> "This endpoint only accepts POST requests"]>>)
        ELSE IF parsed.throws \/ DestructureThrows(parsed.value)
        THEN respond(500, <<[error   |-> "Unable to process your message",
                             message |-> "Please try again later or contact us directly."]>>)
        ELSE IF ~Truthy(name) \/ ~Truthy(email) \/ ~Truthy(message)
        THEN respond(400, <<[error    |-> "Missing required fields",
                             required |-> <<"name", "email", "message">>]>>)
        ELSE IF ~emailRegexTest(EmailChars[email.s])
        THEN respond(400, <<[error |-> "Invalid email address"]>>)
        ELSE respond(200, <<[success      |-> TRUE,
                             message      |-> "Thank you for your message! We'll get back to you soon.",
                             submissionId |-> <<"contact_", now>>,
                             timestamp    |-> now]>>)

\* new Date().toISOString(), or a text the request gave
IsoDate(now) == [text |-> "", date |-> <<now>>]
GivenDate(text) == [text |-> text, date |-> <<>>]

\* push-notifications: handleSubscription
handleSubscription(body, headers, now) ==
    Response(200, headers, <<[success        |-> TRUE,
                             message        |-> "Subscription registered successfully",
                             subscriptionId |-> <<"sub_", now>>]>>)

\* push-notifications: handleUnsubscription
handleUnsubscription(body, headers, now) ==
    Response(200, headers, <<[success |-> TRUE,
                             message |-> "Successfully unsubscribed"]>>)

\* push-notifications: handleSendNotification
handleSendNotification(body, headers, now) ==
    LET scheduledFor == IF body.fields["scheduledFor"] = Undefined
                        THEN Null
                        ELSE body.fields["scheduledFor"]
    IN  Response(200, headers, <<[success        |-> TRUE,
                                 message        |-> "Notification queued for delivery",
                                 notificationId |-> <<"notif_", now>>,
                                 scheduledFor   |-> IF Truthy(scheduledFor)
                                                    THEN GivenDate(scheduledFor.s)
                                                    ELSE IsoDate(now)]>>)

\* push-notifications: handleTestNotification
handleTestNotification(body, headers, now) ==
    Response(200, headers, <<[success |-> TRUE,
                             message |-> "Test notification sent",
                             testId  |-> <<"test_", now>>]>>)

\* event.body ? ... : ..., the test of the body
BodyTruthy(body) == body # NoBody /\ ~(body[1].kind = "raw" /\ body[1].text = "")

\* faulty variant: the body parsed without the test of event.body
pushNotificationsHandler_NoBodyTest(event, now) ==
    LET headers == Headers("GET, POST, PUT, DELETE, OPTIONS")
        parsed  == JSONparse(event.body)
        body    == parsed.value
        action  == body.fields["action"]
    IN  IF event.httpMethod = "OPTIONS" THEN Response(200, headers, <<>>)
        ELSE IF parsed.throws \/ DestructureThrows(body)
        THEN Response(500, headers,
                      <<[error   |-> "Internal server error",
                         message |-> IF parsed.throws THEN "SyntaxError" ELSE "TypeError"]>>)
        ELSE IF action = Str("subscribe") THEN handleSubscription(body, headers, now)
        ELSE IF action = Str("unsubscribe") THEN handleUnsubscription(body, headers, now)
        ELSE IF action = Str("send") THEN handleSendNotification(body, headers, now)
        ELSE IF action = Str("test") THEN handleTestNotification(body, headers, now)
        ELSE Response(400, headers,
                      <<[error        |-> "Invalid action",
                         validActions |-> <<"subscribe", "unsubscribe", "send", "test">>]>>)

\* push-notifications: exports.handler
pushNotificationsHandler(event, now) ==
    LET headers == Headers("GET, POST, PUT, DELETE, OPTIONS")
        parsed  == IF BodyTruthy(event.body)
                   THEN JSONparse(event.body)
                   ELSE [throws |-> FALSE, value |-> JsonObject(NoFields)]
        body    == parsed.value
        action  == body.fields["action"]
    IN  IF event.httpMethod = "OPTIONS" THEN Response(200, headers, <<>>)
        ELSE IF parsed.throws \/ DestructureThrows(body)
        THEN Response(500, headers,
                      <<[error   |-> "Internal server error",
                         message |-> IF parsed.throws THEN "SyntaxError" ELSE "TypeError"]>>)
        ELSE IF action = Str("subscribe") THEN handleSubscription(body, headers, now)
        ELSE IF action = Str("unsubscribe") THEN handleUnsubscription(body, headers, now)
        ELSE IF action = Str("send") THEN handleSendNotification(body, headers, now)
        ELSE IF action = Str("test") THEN handleTestNotification(body, headers, now)
        ELSE Response(400, headers,
                      <<[error        |-> "Invalid action",
                         validActions |-> <<"subscribe", "unsubscribe", "send", "test">>]>>)

\* the requests sent to the functions
Methods == {"OPTIONS", "POST", "GET"}

Fields(name, email, message, action, scheduledFor) ==
    [k \in Keys |-> CASE k = "name" -> name
                     [] k = "email" -> email
                     [] k = "message" -> message
                     [] k = "action" -> action
                     [] k = "scheduledFor" -> scheduledFor]

OtherBodies ==
    {NoBody, Raw(""), Raw("{oops"), Json(JsonNull), Json(JsonNumber), Json(JsonString)}

ContactBodies ==
    OtherBodies \cup
    {Json(JsonObject(Fields(name, email, message, Undefined, Undefined))) :
        name \in {Undefined, Null, Str(""), Str("Ann")},
        email \in {Undefined, Str("")} \cup {Str(e) : e \in DOMAIN EmailChars},
        message \in {Undefined, Str(""), Str("Hello")}}

PushBodies ==
    OtherBodies \cup
    {Json(JsonObject(Fields(Undefined, Undefined, Undefined, action, scheduledFor))) :
        action \in {Undefined, Null, Str("")} \cup
                   {Str(a) : a \in {"subscribe", "unsubscribe", "send", "test",
                                      "Subscribe", "delete"}},
        scheduledFor \in {Undefined, Null, Str("2025-06-01T08:00:00.000Z")}}

Invoke(fn, event, response) ==
    /\ call' = <<[fn |-> fn, event |-> event, now |-> clock, response |-> response]>>
    /\ UNCHANGED <<clock, boot>>
    /\ UNCHANGED appVars

\* a request to /.netlify/functions/contact-form
contactForm(event) ==
    /\ event.httpMethod \in Methods
    /\ Invoke("contact-form", event, contactFormHandler(event, clock))

\* a request to /.netlify/functions/push-notifications
pushNotifications(event) ==
    /\ event.httpMethod \in Methods
    /\ Invoke("push-notifications", event, pushNotificationsHandler(event, clock))

\* time passes: Date.now() grows
Tick ==
    /\ clock < MaxClock
    /\ clock' = clock + 1
    /\ UNCHANGED <<call, boot>>
    /\ UNCHANGED appVars

-----------------------------------------------------------------------------
(* The application. *)

\* App: the initial values of the hooks, and the first render
AppInit ==
    /\ articles = mockArticles
    /\ activeCategory = "home"
    /\ selectedArticle = <<>>
    /\ isOffline = FALSE
    /\ isSearchOpen = FALSE
    /\ showInstallPrompt = FALSE
    /\ showInstallButton = TRUE
    /\ promptTimer = "show"
    /\ query = ""
    /\ isVisible = FALSE
    /\ visibleTimer = FALSE
    /\ pending = <<>>
    /\ unhandled = FALSE
    /\ emitted = <<>>
    /\ lastOp = [op |-> "init", arg |-> ""]
    /\ nEvents = 0
    /\ view = Render(mockArticles, "home", <<>>, FALSE, "", FALSE)
    /\ toggles = [articleId \in {mockArticles[i].id : i \in 1..Len(mockArticles)} |-> 0]

Init ==
    /\ AppInit
    /\ boot = Booted
    /\ clock = 0
    /\ call = <<>>

Next ==
    \/ \E categoryId \in Range(categories) : handleCategoryClick(categoryId)
    \/ ViewAllArticles
    \/ \E article \in RenderedCards : ArticleCardClick(article)
    \/ ArticleBack
    \/ \E articleId \in BookmarkIds : handleBookmark(articleId)
    \/ \E button \in {"retry", "offlineBack"} : OfflineLeave(button)
    \/ PreviewOffline
    \/ handleOnline
    \/ handleOffline
    \/ OpenSearch
    \/ CloseSearch
    \/ \E text \in TypedQueries : SetQuery(text)
    \/ \E searchTerm \in Range(recentSearches) \cup Range(trendingTopics) :
          handleRecentSearchClick(searchTerm)
    \/ \E article \in Range(view.results) : handleArticleClick(article)
    \/ \E canShare, hasClipboard \in BOOLEAN : handleShare(canShare, hasClipboard)
    \/ \E canShare, hasClipboard \in BOOLEAN : articleViewShare(canShare, hasClipboard)
    \/ \E i \in 1..Len(pending) : PromiseFulfils(i)
    \/ \E i \in 1..Len(pending), hasClipboard \in BOOLEAN : PromiseRejects(i, hasClipboard)
    \/ handleInstall
    \/ promptInstall
    \/ handleDismiss
    \/ PromptTimerFires
    \/ VisibleTimerFires

Spec == Init /\ [][Next]_vars

-----------------------------------------------------------------------------
(* The derived views as pure functions of arbitrary inputs. *)

\* the kinds of article PureInit builds collections of
PureKinds == <<
    Article("", "Rugby Cup", "squad", "sport", "A", "2024-12-18T08:30:00Z", "1 min read", FALSE),
    Article("", "Vote", "poll", "Sport", "B", "2024-12-18T08:30:00Z", "2 min read", TRUE),
    Article("", "Budget", "rugby fans", "business", "C", "2024-12-17T08:30:00Z", "3 min read", TRUE),
    Article("", "Home", "", "home", "D", "2024-12-16T08:30:00Z", "4 min read", FALSE) >>

\* the collection of the given kinds, ids by position
Collection(kinds) ==
    [i \in 1..Len(kinds) |-> [PureKinds[kinds[i]] EXCEPT !.id = ToString(i)]]

SeqsUpTo(S, n) == UNION {[1..k -> S] : k \in 0..n}

PureCollections ==
    {Collection(kinds) : kinds \in SeqsUpTo(1..Len(PureKinds), MaxShort)
                                   \cup SeqsUpTo({1, 2}, MaxLen)}

PureCategories == {"home", "sport", "Sport", "business", "opinion"}

PureQueries == {"", " ", "   ", "rugby", "RUGBY", " rugby", "rugby ", "sport", "u", "zzz"}

\* a category with the search idle, or a query on the home category: the two
\* derived views read disjoint inputs
PureInputs ==
    {<<cat, "">> : cat \in PureCategories} \cup {<<"home", q>> : q \in PureQueries}

PureInit ==
    /\ articles \in PureCollections
    /\ \E input \in PureInputs : activeCategory = input[1] /\ query = input[2]
    /\ selectedArticle = <<>>
    /\ isOffline = FALSE
    /\ isSearchOpen = TRUE
    /\ showInstallPrompt = FALSE
    /\ showInstallButton = TRUE
    /\ promptTimer = "none"
    /\ isVisible = FALSE
    /\ visibleTimer = FALSE
    /\ pending = <<>>
    /\ unhandled = FALSE
    /\ emitted = <<>>
    /\ lastOp = [op |-> "init", arg |-> ""]
    /\ nEvents = 0
    /\ view = NotRendered
    /\ toggles = [articleId \in {articles[i].id : i \in 1..Len(articles)} |-> 0]
    /\ boot = Booted
    /\ clock = 0
    /\ call = <<>>

\* one render: the derived views of the inputs
PureRender ==
    /\ view = NotRendered
    /\ view' = Render(articles, activeCategory, selectedArticle, isOffline, query, isVisible)
    /\ lastOp' = [op |-> "render", arg |-> ""]
    /\ UNCHANGED <<articles, activeCategory, selectedArticle, isOffline, isSearchOpen,
                   showInstallPrompt, showInstallButton, promptTimer, query, isVisible,
                   visibleTimer, pending, unhandled, emitted, nEvents, toggles,
                   boot, clock, call>>

PureNext == PureRender

PureSpec == PureInit /\ [][PureNext]_vars

-----------------------------------------------------------------------------
(* The page from its load: every page main.tsx may run in.  (BootSpec)      *)

BootInit ==
    /\ AppInit
    /\ \E hasRoot, hasServiceWorker, hasPushManager \in BOOLEAN, throws \in BootThrows :
          boot = Loading(hasRoot, throws, hasServiceWorker, hasPushManager)
    /\ clock = 0
    /\ call = <<>>

BootNext ==
    \/ RunScript
    \/ WindowLoad
    \/ RegistrationResolves
    \/ RegistrationRejects
    \/ BeforeInstallPrompt
    \/ AppInstalled
    \/ UnhandledRejection
    \/ RuntimeError
    \/ ReloadPage

BootSpec == BootInit /\ [][BootNext]_vars

-----------------------------------------------------------------------------
(* The serverless functions under every request.  (FunctionsSpec)           *)

FunctionsInit ==
    /\ AppInit
    /\ boot = Booted
    /\ clock = 0
    /\ call = <<>>

FunctionsNext ==
    \/ \E event \in [httpMethod : Methods, body : ContactBodies] : contactForm(event)
    \/ \E event \in [httpMethod : Methods, body : PushBodies] : pushNotifications(event)
    \/ Tick

FunctionsSpec == FunctionsInit /\ [][FunctionsNext]_vars

-----------------------------------------------------------------------------
(* The bookmark handler called any number of times between renders.         *)
(* (BatchSpec)                                                              *)

BatchInit == Init

BatchNext ==
    \/ \E articleId \in BookmarkIds : handleBookmark(articleId)
    \/ \E articleIds \in Batches : handleBookmarks(articleIds)

BatchSpec == BatchInit /\ [][BatchNext]_vars

-----------------------------------------------------------------------------
(* The application with the way back to the list never cut off.             *)
(* (RecoverySpec)  MaxEvents bounds the history that is explored, not the   *)
(* user or the network: once the counted events are used up, the buttons    *)
(* that lead back and the "offline" event go on, uncounted.                 *)

\* OfflinePage onRetry / onBack -> setIsOffline(false), past the counted events
OfflineLeaveAgain(button) ==
    /\ view.screen = "OFFLINE"
    /\ nEvents = MaxEvents
    /\ Callback(button)
    /\ isOffline' = FALSE
    /\ NoToast
    /\ UNCHANGED <<articles, activeCategory, selectedArticle, isSearchOpen,
                   showInstallPrompt, showInstallButton, pending, unhandled>>
    /\ Commit(query, isVisible, promptTimer, visibleTimer)

\* ArticleView onBack -> setSelectedArticle(null), past the counted events
ArticleBackAgain ==
    /\ view.screen = "ARTICLE"
    /\ nEvents = MaxEvents
    /\ Callback("back")
    /\ selectedArticle' = <<>>
    /\ NoToast
    /\ UNCHANGED <<articles, activeCategory, isOffline, isSearchOpen,
                   showInstallPrompt, showInstallButton, pending, unhandled>>
    /\ Commit(query, isVisible, promptTimer, visibleTimer)

\* window "offline" event -> handleOffline, past the counted events
handleOfflineAgain ==
    /\ nEvents = MaxEvents
    /\ Callback("offline")
    /\ isOffline' = TRUE
    /\ NoToast
    /\ UNCHANGED <<articles, activeCategory, selectedArticle, isSearchOpen,
                   showInstallPrompt, showInstallButton, pending, unhandled>>
    /\ Commit(query, isVisible, promptTimer, visibleTimer)

\* the user presses "Try Again" or "Back" on the offline page
Retry ==
    \E button \in {"retry", "offlineBack"} :
        OfflineLeave(button) \/ OfflineLeaveAgain(button)

\* the user presses the back control of the article view
Back == ArticleBack \/ ArticleBackAgain

\* every handler of the application but those of sharing, which change
\* neither a hook of App nor anything displayed
RecoveryNext ==
    \/ \E categoryId \in Range(categories) : handleCategoryClick(categoryId)
    \/ ViewAllArticles
    \/ \E article \in RenderedCards : ArticleCardClick(article)
    \/ ArticleBack
    \/ \E articleId \in BookmarkIds : handleBookmark(articleId)
    \/ \E button \in {"retry", "offlineBack"} : OfflineLeave(button)
    \/ PreviewOffline
    \/ handleOnline
    \/ handleOffline
    \/ OpenSearch
    \/ CloseSearch
    \/ \E text \in TypedQueries : SetQuery(text)
    \/ \E searchTerm \in Range(recentSearches) \cup Range(trendingTopics) :
          handleRecentSearchClick(searchTerm)
    \/ \E article \in Range(view.results) : handleArticleClick(article)
    \/ handleInstall
    \/ promptInstall
    \/ handleDismiss
    \/ PromptTimerFires
    \/ VisibleTimerFires
    \/ \E button \in {"retry", "offlineBack"} : OfflineLeaveAgain(button)
    \/ ArticleBackAgain
    \/ handleOfflineAgain

\* the user keeps taking the action that leads back: on the offline page the
\* buttons stay available until one is pressed or the network returns; the
\* article view can be replaced by the offline page before the user presses
\* back, and is shown again after the retry
RecoverySpec ==
    /\ Init
    /\ [][RecoveryNext]_vars
    /\ WF_vars(Retry)
    /\ SF_vars(Back)

-----------------------------------------------------------------------------
(* Vocabulary of the properties: written from the statements, independent   *)
(* of the operators above.                                                  *)

\* c and d are the same character up to letter case
SameIgnoringCase(c, d) ==
    \/ c = d
    \/ \E i \in 1..Len(UpperCaseLetters) :
          {c, d} = {UpperCaseLetters[i], LowerCaseLetters[i]}

\* text s contains text q at some offset, ignoring letter case
ContainsIgnoringCase ==
    [s \in StringLits, q \in StringLits |->
        LET hay == CharTable[s]
            needle == CharTable[q]
        IN  \E off \in 0..(Len(hay) - Len(needle)) :
               \A j \in 1..Len(needle) : SameIgnoringCase(hay[off + j], needle[j])]

\* q holds nothing but whitespace (or nothing at all)
OnlyWhiteSpace(q) == \A i \in 1..Len(CharTable[q]) : CharTable[q][i] \in WhiteSpace

\* the k-th smallest element of a set of numbers
Nth(S, k) == CHOOSE i \in S : Cardinality({j \in S : j < i}) = k - 1

\* s is exactly the elements of arts at the positions idx, in increasing order
IsSelection(s, arts, idx) ==
    /\ Len(s) = Cardinality(idx)
    /\ \A k \in 1..Len(s) : s[k] = arts[Nth(idx, k)]

\* s is the first n elements of the selection of arts at idx (all, if fewer)
IsSelectionPrefix(s, arts, idx, n) ==
    /\ Len(s) = (IF Cardinality(idx) < n THEN Cardinality(idx) ELSE n)
    /\ \A k \in 1..Len(s) : s[k] = arts[Nth(idx, k)]

CategoryPositions(arts, cat) == {i \in 1..Len(arts) : arts[i].category = cat}

MatchPositions(arts, q) ==
    {i \in 1..Len(arts) : \/ ContainsIgnoringCase[arts[i].title, q]
                          \/ ContainsIgnoringCase[arts[i].excerpt, q]
                          \/ ContainsIgnoringCase[arts[i].category, q]}

BookmarkedPositions(arts) == {i \in 1..Len(arts) : arts[i].isBookmarked}

Ids(arts) == {arts[i].id : i \in 1..Len(arts)}

Rendered == view # NotRendered

-----------------------------------------------------------------------------
(* C1: for every collection and category the category filter returns the   *)
(* collection itself for "home", and otherwise exactly the articles of     *)
(* that category in their original order; a category of no article gives   *)
(* the empty sequence.  (PureSpec)                                          *)
C1_CategoryFilter ==
    Rendered =>
        IF activeCategory = "home"
        THEN view.filtered = articles
        ELSE /\ IsSelection(view.filtered, articles,
                            CategoryPositions(articles, activeCategory))
             /\ (CategoryPositions(articles, activeCategory) = {} => view.filtered = <<>>)

\* a filter that keeps the first and the third of three articles
C1_Witness ==
    /\ Rendered
    /\ activeCategory = "sport"
    /\ Len(articles) = 3
    /\ CategoryPositions(articles, "sport") = {1, 3}
    /\ Len(view.filtered) = 2

(* C2: for a query that is non-empty after trimming, the search result is  *)
(* the first 8, in collection order, of the articles whose title, excerpt  *)
(* or category contains the query ignoring case.  (PureSpec)               *)
C2_SearchResults ==
    (Rendered /\ ~OnlyWhiteSpace(query)) =>
        /\ IsSelectionPrefix(view.results, articles,
                             MatchPositions(articles, query), MaxResults)
        /\ Len(view.results) <= MaxResults
        /\ \A k \in 1..Len(view.results) :
              \E i \in MatchPositions(articles, query) : view.results[k] = articles[i]

\* more than 8 matches, an article that does not match before the last of
\* them: the cap cuts
C2_Witness ==
    /\ Rendered
    /\ query = "RUGBY"
    /\ Cardinality(MatchPositions(articles, query)) > MaxResults
    /\ 2 \notin MatchPositions(articles, query)
    /\ Len(articles) \in MatchPositions(articles, query)
    /\ Len(view.results) = MaxResults

(* C3: a query that is empty or only whitespace gives no results for every *)
(* collection, and the recent-searches panel is shown, not the results.    *)
(* (PureSpec)                                                               *)
C3_BlankQueryInert ==
    (Rendered /\ OnlyWhiteSpace(query)) =>
        /\ view.results = <<>>
        /\ view.recentPanel
        /\ ~view.resultsPanel

\* a blank query that a title of the collection contains
C3_Witness ==
    /\ Rendered
    /\ query = " "
    /\ MatchPositions(articles, query) # {}
    /\ view.results = <<>>

(* C9: the composer gives featured = the first element of the filtered     *)
(* sequence and regular = the rest in order; for the empty sequence no     *)
(* featured article and an empty regular list.  (PureSpec)                 *)
C9_ComposeView ==
    Rendered =>
        IF view.filtered = <<>>
        THEN view.featured = <<>> /\ view.regular = <<>>
        ELSE /\ view.featured = <<Head(view.filtered)>>
             /\ view.regular = Tail(view.filtered)
             /\ view.featured \o view.regular = view.filtered

C9_Witness ==
    /\ Rendered
    /\ Len(view.filtered) = 3
    /\ Len(view.regular) = 2
    /\ view.regular[1] # view.regular[2]

-----------------------------------------------------------------------------
(* C4: toggleBookmark is its own inverse: in every reachable state of the  *)
(* store and for every existing id, a second toggleBookmark of the id      *)
(* right after the first restores the whole collection.                     *)
C4_ToggleTwiceRestores ==
    /\ [](\A id \in Ids(articles) :
             toggleBookmark(toggleBookmark(articles, id), id) = articles)
    /\ [][(lastOp'.op = "toggleBookmark" /\ lastOp'.arg \in Ids(articles))
             => /\ articles' # articles
                /\ toggleBookmark(articles', lastOp'.arg) = articles]_vars

\* two toggles of the same existing id in succession, back at the seed
C4_Witness ==
    /\ nEvents = 2
    /\ lastOp.op = "toggleBookmark"
    /\ lastOp.arg \in Ids(articles)
    /\ articles = mockArticles

(* C5: toggleBookmark of an id no article has leaves the collection        *)
(* unchanged field for field, emits no notification and raises nothing.    *)
C5_ToggleMissIsNoOp ==
    [][(lastOp'.op = "toggleBookmark" /\ lastOp'.arg \notin Ids(articles))
          => /\ articles' = articles
             /\ emitted' = <<>>
             /\ unhandled' = unhandled
             /\ view'.saved = view.saved /\ view'.filtered = view.filtered]_vars

\* a miss after a toggle that hit
C5_Witness ==
    /\ lastOp = [op |-> "toggleBookmark", arg |-> UnknownId]
    /\ articles # mockArticles

(* C6: isBookmarked changes only in a toggleBookmark step of that          *)
(* article's id; that step changes no other article and no other field;    *)
(* every other operation leaves the collection unchanged.                   *)
C6_BookmarkFrame ==
    [][/\ Len(articles') = Len(articles)
       /\ lastOp'.op # "toggleBookmark" => articles' = articles
       /\ \A i \in 1..Len(articles) :
             articles'[i] # articles[i] =>
                /\ lastOp'.op = "toggleBookmark"
                /\ lastOp'.arg = articles[i].id
                /\ articles'[i] = [articles[i] EXCEPT
                                      !.isBookmarked = ~articles[i].isBookmarked]]_vars

\* a toggle, and then operations that are no toggle
C6_Witness ==
    /\ articles # mockArticles
    /\ lastOp.op = "share"
    /\ pending # <<>>
    /\ activeCategory # "home"

(* C7: the collection is always the seeded articles in seed order: the ids *)
(* are pairwise distinct and no article is added, removed, duplicated or   *)
(* reordered.                                                               *)
C7_CollectionFixed ==
    /\ Len(articles) = Len(mockArticles)
    /\ \A i, j \in 1..Len(articles) : articles[i].id = articles[j].id => i = j
    /\ \A i \in 1..Len(articles) :
          [articles[i] EXCEPT !.isBookmarked = mockArticles[i].isBookmarked]
              = mockArticles[i]

\* after an article was bookmarked and another un-bookmarked
C7_Witness ==
    /\ articles[1].isBookmarked
    /\ ~articles[2].isBookmarked
    /\ nEvents = 3

(* C8: the saved-articles view is always exactly the bookmarked articles   *)
(* in collection order, whatever the category, the query and the selected  *)
(* article are; a change of category or of query never changes it.         *)
C8_SavedView ==
    /\ [](IsSelection(view.saved, articles, BookmarkedPositions(articles)))
    /\ [][lastOp'.op \in {"selectCategory", "viewAll", "setQuery", "recentSearch"}
             => view'.saved = view.saved]_vars

\* a category of one unsaved article, three saved articles
C8_Witness ==
    /\ activeCategory = "sport"
    /\ lastOp.op = "selectCategory"
    /\ Len(view.saved) = 3
    /\ view.filtered # <<>>
    /\ \A k \in 1..Len(view.filtered) : ~view.filtered[k].isBookmarked

(* C10: exactly one of LIST, ARTICLE, OFFLINE is displayed: OFFLINE iff    *)
(* isOffline, whatever selectedArticle is; ARTICLE iff not isOffline and   *)
(* an article is selected; LIST otherwise.  Selecting an article while     *)
(* offline does not leave the OFFLINE screen.                               *)
C10_ScreenPrecedence ==
    /\ view.screen \in {"LIST", "ARTICLE", "OFFLINE"}
    /\ view.screen = "OFFLINE" <=> isOffline
    /\ view.screen = "ARTICLE" <=> (~isOffline /\ selectedArticle # <<>>)
    /\ view.screen = "LIST" <=> (~isOffline /\ selectedArticle = <<>>)
    /\ (lastOp.op = "selectArticle" /\ isOffline) => view.screen = "OFFLINE"

\* an article selected on the offline screen
C10_Witness ==
    /\ isOffline
    /\ lastOp.op = "selectArticle"
    /\ selectedArticle # <<>>
    /\ view.screen = "OFFLINE"


-----------------------------------------------------------------------------
(* Screens and the network (Spec). *)

\* C11: whenever the OFFLINE screen is displayed, the next different screen
\* displayed (after retry, back or an online event) is LIST, never ARTICLE,
\* whatever was done while offline.
C11_OfflineLeadsToList ==
    [][(view.screen = "OFFLINE" /\ view'.screen # "OFFLINE")
          => view'.screen = "LIST"]_vars

\* C11 as amended: the OFFLINE screen is left only by retry, back or an online
\* event, and the next screen is LIST when no article is selected and ARTICLE
\* for the selected article when one is (selected before the offline state was
\* entered, or from a saved card of the OFFLINE screen).
C11_OfflineLeadsToListOrSelected ==
    [][(view.screen = "OFFLINE" /\ view'.screen # "OFFLINE")
          => /\ lastOp'.op \in {"retry", "offlineBack", "online"}
             /\ selectedArticle' = selectedArticle
             /\ IF selectedArticle = <<>>
                THEN view'.screen = "LIST"
                ELSE view'.screen = "ARTICLE" /\ view'.shown = selectedArticle]_vars

\* the OFFLINE screen left by retry with an article selected
C11_Witness ==
    /\ lastOp.op = "retry"
    /\ view.screen = "ARTICLE"
    /\ view.shown = selectedArticle


\* C12: every article selection performed while isOffline is true selects an
\* article that is bookmarked in the store at the moment of the selection.
C12_OfflineSelectsSaved ==
    [][(lastOp'.op \in {"selectArticle", "searchSelect"} /\ isOffline)
          => \E i \in 1..Len(articles) :
                /\ articles[i].id = lastOp'.arg
                /\ articles[i].isBookmarked
                /\ selectedArticle' = <<articles[i]>>]_vars

\* a saved article selected on the offline page after another was removed
\* from the saved articles there
C12_Witness ==
    /\ isOffline
    /\ lastOp.op = "selectArticle"
    /\ selectedArticle # <<>> /\ selectedArticle[1].isBookmarked
    /\ Len(view.saved) = 1
    /\ view.saved[1] = selectedArticle[1]


\* C13: while online, selecting an article from LIST displays ARTICLE for
\* exactly that article, and back navigation from ARTICLE displays LIST again;
\* neither step changes activeCategory or the collection, so the featured
\* article and the regular articles computed after the back navigation are
\* those computed before the selection.
C13_SelectThenBack ==
    /\ [][(view.screen = "LIST" /\ lastOp'.op \in {"selectArticle", "searchSelect"})
             => /\ ~isOffline /\ ~isOffline'
                /\ view'.screen = "ARTICLE"
                /\ \E i \in 1..Len(articles) :
                      /\ articles[i].id = lastOp'.arg
                      /\ view'.shown = <<articles[i]>>
                /\ activeCategory' = activeCategory
                /\ articles' = articles
                /\ view'.featured = view.featured
                /\ view'.regular = view.regular]_vars
    /\ [][lastOp'.op = "back"
             => /\ view.screen = "ARTICLE"
                /\ view'.screen = "LIST"
                /\ activeCategory' = activeCategory
                /\ articles' = articles
                /\ view'.featured = view.featured
                /\ view'.regular = view.regular
                /\ view'.featuredShown = (view.featured # <<>>)
                /\ view'.gridShown = (view.regular # <<>>)]_vars

\* back in the list of a category other than home, after an article of it
\* was opened
C13_Witness ==
    /\ lastOp.op = "back"
    /\ nEvents = 3
    /\ activeCategory = "sport"
    /\ articles = mockArticles
    /\ view.screen = "LIST"
    /\ view.featuredShown


\* C14: a browser "offline" event sets the offline flag and the OFFLINE
\* screen is displayed from whichever screen was active; a browser "online"
\* event clears the flag and the OFFLINE screen is no longer displayed,
\* whether the offline state was entered by a network event or by Preview
\* Offline Mode.
C14_NetworkEvents ==
    /\ [][lastOp'.op = "offline"
             => isOffline' /\ view'.screen = "OFFLINE"]_vars
    /\ [][lastOp'.op = "online"
             => /\ ~isOffline'
                /\ view'.screen \in {"LIST", "ARTICLE"}]_vars
    /\ [][(lastOp.op = "previewOffline" /\ lastOp'.op = "online")
             => view.screen = "OFFLINE" /\ view'.screen = "LIST"]_vars

\* an online event received after the offline state was entered from the
\* list of a category
C14_Witness ==
    /\ lastOp.op = "online"
    /\ nEvents = 3
    /\ activeCategory = "sport"
    /\ articles = mockArticles
    /\ ~isOffline
    /\ view.screen = "LIST"


-----------------------------------------------------------------------------
(* Sharing (Spec). *)

\* C15: a share or clipboard failure is always reported by a notification and
\* never thrown: for every combination of capabilities and outcomes and for
\* both entry points, a share call either starts a promise or notifies, and a
\* rejected promise either notifies or starts the clipboard fallback, whose
\* settling notifies; no rejection or exception is left unhandled.
C15_ShareFailureReported ==
    /\ [][lastOp'.op \in {"share", "shareFromView"}
             => /\ emitted' # <<>> \/ Len(pending') = Len(pending) + 1
                /\ ~unhandled']_vars
    /\ [][lastOp'.op = "rejected"
             => /\ emitted' # <<>> \/ Len(pending') = Len(pending)
                /\ ~unhandled']_vars
    /\ [][(lastOp'.op = "fulfilled" /\ Len(pending) = 1
                /\ pending[1] \in {"clipboard", "clipboardAfterShare"})
             => emitted' # <<>> /\ ~unhandled']_vars


\* C16: no share action, whatever its outcome and whenever its completion
\* is delivered, changes the article collection, the active category, the
\* selected article or the offline flag.
C16_ShareFrame ==
    [][lastOp'.op \in {"share", "shareFromView", "fulfilled", "rejected"}
          => /\ articles' = articles
             /\ activeCategory' = activeCategory
             /\ selectedArticle' = selectedArticle
             /\ isOffline' = isOffline
             /\ view'.screen = view.screen
             /\ view'.filtered = view.filtered
             /\ view'.saved = view.saved]_vars

\* a clipboard write completing while an article is selected and the
\* offline page is displayed
C16_Witness ==
    /\ lastOp.op = "fulfilled"
    /\ emitted = <<"Link copied to clipboard!">>
    /\ selectedArticle # <<>>
    /\ isOffline
    /\ pending = <<>>


-----------------------------------------------------------------------------
(* The empty state (Spec). *)

\* C18: in the LIST screen the empty-state card is rendered iff the filtered
\* sequence is empty and the featured section iff it is not (never both,
\* never neither); selecting a navigation category of no article ("opinion",
\* "news" with the seed) shows the empty state, and its "View All Articles"
\* action sets the category to "home".
C18_EmptyState ==
    /\ [](view.screen = "LIST"
            => /\ view.filtered = filteredArticles(articles, activeCategory)
               /\ view.emptyState <=> Len(view.filtered) = 0
               /\ view.featuredShown <=> Len(view.filtered) > 0
               /\ view.emptyState # view.featuredShown
               /\ view.gridShown => view.featuredShown)
    /\ [](CategoryPositions(articles, "opinion") = {}
            /\ CategoryPositions(articles, "news") = {})
    /\ [][(/\ lastOp'.op = "selectCategory"
            /\ lastOp'.arg # "home"
            /\ CategoryPositions(articles, lastOp'.arg) = {})
             => /\ view'.screen = "LIST"
                /\ view'.emptyState
                /\ ~view'.featuredShown /\ ~view'.gridShown]_vars
    /\ [][lastOp'.op = "viewAll"
             => /\ view.emptyState
                /\ activeCategory' = "home"
                /\ view'.featuredShown /\ ~view'.emptyState]_vars

\* "View All Articles" pressed on the empty state of a category of no article
C18_Witness ==
    /\ lastOp = [op |-> "viewAll", arg |-> "home"]
    /\ nEvents = 2
    /\ activeCategory = "home"
    /\ view.screen = "LIST"
    /\ view.featuredShown
    /\ ~view.emptyState


-----------------------------------------------------------------------------
(* Start-up (BootSpec). *)

\* C17: when the initialization of the application fails, including when the
\* root element is missing, the page displays the static error message with
\* its reload action.
C17_InitFailureFallback ==
    (boot.phase = "ran" /\ boot.initFailed) => boot.displayed = "fallback"


-----------------------------------------------------------------------------
(* The serverless functions (FunctionsSpec).  The statements are written     *)
(* over the last invocation: its request, the time it read and its response. *)

LastCall(fn) == call # <<>> /\ call[1].fn = fn

\* the body is the text of a JSON value
ParsesAsJson(body) == body # NoBody /\ body[1].kind = "json"

\* the property k of the JSON object the body is the text of, if it is one
Given(body, k) ==
    IF ParsesAsJson(body) /\ body[1].value.t = "object"
    THEN body[1].value.fields[k]
    ELSE Undefined

PresentNonEmpty(body, k) == Given(body, k).t = "string" /\ Given(body, k).s # ""

\* local@domain.tld: no white space, one "@" with a local part before it,
\* and after it a domain, a dot and a top-level domain
EmailShape(cs) ==
    LET ats == {i \in 1..Len(cs) : cs[i] = "@"}
    IN  /\ Cardinality(ats) = 1
        /\ \A i \in 1..Len(cs) : cs[i] \notin WhiteSpace
        /\ \A p \in ats :
              /\ p > 1
              /\ \E d \in (p + 2)..(Len(cs) - 1) : cs[d] = "."

HasKey(body, k) == body # <<>> /\ k \in DOMAIN body[1]

\* the responses of the contact form, in their order of precedence;
\* unprocessable: the bodies answered with 500
ContactFormTable(unprocessable(_)) ==
    LastCall("contact-form") =>
        LET event    == call[1].event
            response == call[1].response
            body     == event.body
            complete == /\ PresentNonEmpty(body, "name")
                        /\ PresentNonEmpty(body, "email")
                        /\ PresentNonEmpty(body, "message")
            shaped   == complete /\ EmailShape(EmailChars[Given(body, "email").s])
        IN  /\ (response.statusCode = 200 /\ HasKey(response.body, "submissionId"))
                  <=> (event.httpMethod = "POST" /\ ParsesAsJson(body) /\ shaped)
            /\ IF event.httpMethod = "OPTIONS"
               THEN response.statusCode = 200 /\ response.body = <<>>
               ELSE IF event.httpMethod # "POST"
               THEN response.statusCode = 405
               ELSE IF unprocessable(body)
               THEN response.statusCode = 500
               ELSE IF ~complete
               THEN /\ response.statusCode = 400
                    /\ response.body[1].error = "Missing required fields"
               ELSE IF ~shaped
               THEN /\ response.statusCode = 400
                    /\ response.body[1].error = "Invalid email address"
               ELSE /\ response.statusCode = 200
                    /\ response.body[1].success
                    /\ response.body[1].submissionId = <<"contact_", call[1].now>>

\* an invocation changes nothing but the record of the invocation
NothingPersisted ==
    [][call' # call => (clock' = clock /\ boot' = boot /\ UNCHANGED appVars)]_vars

\* C19: the contact-form handler returns 200 with a submission id iff the
\* method is POST, the body parses as JSON, name, email and message are all
\* present and non-empty and email has the shape local@domain.tld; otherwise,
\* in this order: 200 with an empty body for OPTIONS, 405 for another method,
\* 500 for an unparsable or missing body, 400 for a missing required field,
\* 400 for an invalid email.  No call persists any state.
C19_ContactForm ==
    /\ [] ContactFormTable(LAMBDA body : ~ParsesAsJson(body))
    /\ NothingPersisted

\* C19 as amended: the same, with 500 also for a body that is the JSON value
\* null.
C19_ContactFormNullBody ==
    /\ [] ContactFormTable(LAMBDA body : \/ ~ParsesAsJson(body)
                                         \/ body[1].value.t = "null")
    /\ NothingPersisted

\* a POST whose body is the text null, answered with 500
C19_Witness ==
    /\ LastCall("contact-form")
    /\ call[1].event = [httpMethod |-> "POST", body |-> Json(JsonNull)]
    /\ call[1].response.statusCode = 500


\* the four actions of the push-notifications handler
ValidActions == <<"subscribe", "unsubscribe", "send", "test">>

\* the action the request names, <<>> when it names none
RequestedAction(body) ==
    IF Given(body, "action").t = "string" /\ Given(body, "action").s \in Range(ValidActions)
    THEN <<Given(body, "action").s>>
    ELSE <<>>

\* the response carries an id made at the time of the call
HasSyntheticId(response, now) ==
    /\ response.body # <<>>
    /\ \E k \in DOMAIN response.body[1] :
          /\ k \in {"subscriptionId", "notificationId", "testId"}
          /\ response.body[1][k] \in {<<prefix, now>> : prefix \in {"sub_", "notif_", "test_"}}

\* a body that is text, but not the text of a JSON value
Unparsable(body) == body # NoBody /\ body[1].kind = "raw" /\ body[1].text # ""

\* C20: the push-notifications handler dispatches on the body's action field:
\* each of subscribe, unsubscribe, send and test returns a 200 success
\* response carrying a synthetic id, any other or missing action returns 400
\* listing the valid actions, an unparsable body returns 500, and no action
\* persists data.  (Stated of the requests that reach the dispatch: every
\* method but OPTIONS.)
C20_PushNotifications ==
    /\ []((LastCall("push-notifications") /\ call[1].event.httpMethod # "OPTIONS") =>
            LET event    == call[1].event
                response == call[1].response
            IN  IF RequestedAction(event.body) # <<>>
                THEN /\ response.statusCode = 200
                     /\ response.body # <<>> /\ response.body[1].success
                     /\ HasSyntheticId(response, call[1].now)
                ELSE IF Unparsable(event.body)
                THEN response.statusCode = 500
                ELSE /\ response.statusCode = 400
                     /\ response.body[1].validActions = ValidActions)
    /\ NothingPersisted

\* C20 as amended: OPTIONS returns 200 with an empty body whatever the body;
\* for every other method subscribe, send and test return a 200 success
\* response carrying a synthetic id (sub_, notif_, test_ and the time),
\* unsubscribe a 200 success response without an id, an unparsable body and
\* the JSON value null 500, and any other or missing action, as a missing or
\* empty body, 400 listing the valid actions.  No action persists data.
C20_PushNotificationsDispatch ==
    /\ [](LastCall("push-notifications") =>
            LET event    == call[1].event
                response == call[1].response
                action   == RequestedAction(event.body)
                idOf     == [a \in {"subscribe", "send", "test"} |->
                               CASE a = "subscribe" -> <<"subscriptionId", "sub_">>
                                 [] a = "send" -> <<"notificationId", "notif_">>
                                 [] a = "test" -> <<"testId", "test_">>]
            IN  IF event.httpMethod = "OPTIONS"
                THEN response.statusCode = 200 /\ response.body = <<>>
                ELSE IF action # <<>>
                THEN /\ response.statusCode = 200
                     /\ response.body # <<>> /\ response.body[1].success
                     /\ IF action[1] = "unsubscribe"
                        THEN ~HasSyntheticId(response, call[1].now)
                        ELSE /\ HasKey(response.body, idOf[action[1]][1])
                             /\ response.body[1][idOf[action[1]][1]]
                                   = <<idOf[action[1]][2], call[1].now>>
                ELSE IF \/ Unparsable(event.body)
                        \/ (ParsesAsJson(event.body) /\ event.body[1].value.t = "null")
                THEN response.statusCode = 500
                ELSE /\ response.statusCode = 400
                     /\ response.body[1].validActions = ValidActions)
    /\ NothingPersisted

\* an unsubscribe request answered with success and no id, after the clock
\* has advanced
C20_Witness ==
    /\ LastCall("push-notifications")
    /\ call[1].event.httpMethod = "POST"
    /\ RequestedAction(call[1].event.body) = <<"unsubscribe">>
    /\ call[1].now = 1
    /\ call[1].response.statusCode = 200
    /\ ~HasKey(call[1].response.body, "subscriptionId")


-----------------------------------------------------------------------------
(* Relations between the derived views (PureSpec). *)

\* C21: the category filter is idempotent: for every collection and category,
\* filtering the filtered sequence by the same category again returns it
\* unchanged.
C21_FilterIdempotent ==
    Rendered =>
        /\ filteredArticles(view.filtered, activeCategory) = view.filtered
        /\ filteredArticles(filteredArticles(articles, activeCategory), activeCategory)
              = filteredArticles(articles, activeCategory)

\* a category that keeps some articles of the collection and drops others
C21_Witness ==
    /\ Rendered
    /\ activeCategory = "sport"
    /\ Len(view.filtered) >= 2
    /\ Len(view.filtered) < Len(articles)


\* the literal a query trims to
Trimmed(q) == CHOOSE t \in StringLits : CharTable[t] = TrimChars(CharTable[q])

-----------------------------------------------------------------------------
(* The article view and the bookmark toggles (Spec). *)

\* C22: while the ARTICLE screen is displayed, the bookmark state shown for
\* the open article equals the store's isBookmarked flag for that id, after
\* any sequence of toggles, those made from the article view included.
C22_ArticleShowsStoreFlag ==
    view.screen = "ARTICLE" =>
        \E i \in 1..Len(articles) :
            /\ articles[i].id = view.shown[1].id
            /\ articles[i].isBookmarked = view.shown[1].isBookmarked


-----------------------------------------------------------------------------
(* The install prompt (Spec). *)

\* C24: once the app is installed, showInstallButton and showInstallPrompt
\* stay false and the banner is never visible again, whatever timer was set
\* before the installation; and once the banner is dismissed it does not
\* reappear.  (The app is installed iff showInstallButton is false; after a
\* dismissal showInstallPrompt is false and no timer that shows it is set.)
C24_InstalledStaysInstalled ==
    /\ [](~showInstallButton =>
            /\ ~showInstallPrompt
            /\ ~isVisible /\ ~visibleTimer /\ ~view.bannerVisible
            /\ promptTimer # "show")
    /\ [][lastOp'.op \in {"install", "installFromPrompt"} => ~showInstallButton']_vars
    /\ [][~showInstallButton => ~showInstallButton']_vars
    /\ [][lastOp'.op = "dismiss"
             => ~showInstallPrompt' /\ promptTimer' # "show" /\ ~view'.bannerVisible]_vars
    /\ [][(~showInstallPrompt /\ promptTimer # "show")
             => /\ ~showInstallPrompt' /\ promptTimer' # "show"
                /\ ~isVisible' /\ ~visibleTimer' /\ ~view'.bannerVisible]_vars

\* the timer set by the effect that followed the installation has fired and
\* shown nothing
C24_Witness ==
    /\ lastOp.op = "promptTimer"
    /\ ~showInstallButton
    /\ ~showInstallPrompt
    /\ promptTimer = "none"
    /\ view.screen = "LIST"

\* C25: in every reachable state the install banner being visible implies
\* that showInstallPrompt is true, that showInstallButton is true and that
\* the LIST screen is displayed.
C25_BannerVisible ==
    (isVisible \/ view.bannerVisible) =>
        /\ showInstallPrompt
        /\ showInstallButton
        /\ view.screen = "LIST"
        /\ ~isOffline /\ selectedArticle = <<>>

\* the banner visible after two events
C25_Witness ==
    /\ view.bannerVisible
    /\ nEvents = 2
    /\ lastOp.op = "visibleTimer"


-----------------------------------------------------------------------------
(* Bookmark toggles handled between renders (BatchSpec). *)

\* the ids a step called toggleBookmark with, in the order of the calls
Toggled(step) ==
    IF step.op = "toggleBookmark" THEN <<step.arg>>
    ELSE IF step.op = "toggleBookmarks" THEN step.arg
    ELSE <<>>

\* the ids of these that some article has, in the order of the calls
Existing(articleIds) ==
    SelectSeq(articleIds, LAMBDA id : \E i \in 1..Len(articles) : articles[i].id = id)

\* the isBookmarked flag that the k-th call on an existing id changes: the
\* flag before the batch, negated once per earlier call on the same id
FlagBefore(ids, k) ==
    LET before == CHOOSE i \in 1..Len(articles) : articles[i].id = ids[k]
        earlier == Cardinality({j \in 1..(k - 1) : ids[j] = ids[k]})
    IN  articles[before].isBookmarked # (earlier % 2 = 1)

\* C26: each toggleBookmark on an existing id emits exactly one notification,
\* "Article saved for offline reading" when the flag it changes goes from
\* false to true and "Removed from saved articles" when it goes from true to
\* false, also when several toggles are handled before a render.
C26_ToastMatchesChange ==
    [][Toggled(lastOp') # <<>> =>
          LET ids == Existing(Toggled(lastOp'))
          IN  /\ Len(emitted') = Len(ids)
              /\ \A k \in 1..Len(ids) :
                    emitted'[k] = IF FlagBefore(ids, k)
                                  THEN "Removed from saved articles"
                                  ELSE "Article saved for offline reading"]_vars

\* C27: after any sequence of toggleBookmark calls, in any order and however
\* batched between renders, each article's isBookmarked is its seed value if
\* the number of toggles of its id is even and the negated seed value if odd,
\* and nothing else of the collection has changed.
C27_TogglesNeverLost ==
    /\ Len(articles) = Len(mockArticles)
    /\ \A i \in 1..Len(articles) :
          articles[i] = [mockArticles[i] EXCEPT
                            !.isBookmarked = (@ # (toggles[mockArticles[i].id] = 1))]

\* a batch of two toggles of different articles after a single toggle of the
\* first of them
C27_Witness ==
    /\ lastOp.op = "toggleBookmarks"
    /\ Len(lastOp.arg) = 2
    /\ lastOp.arg[1] # lastOp.arg[2]
    /\ \A k \in 1..2 : lastOp.arg[k] \in DOMAIN toggles
    /\ toggles[lastOp.arg[1]] = 0
    /\ toggles[lastOp.arg[2]] = 1
    /\ nEvents = 3


-----------------------------------------------------------------------------
(* Selecting a search result; the controls of a card (Spec). *)

\* C28: selecting a search result sets the selected article to that result,
\* closes the search dialog and resets the query to the empty string; a query
\* that is empty stays empty until the user types or picks a term in the open
\* dialog, so the dialog shows no results when it is opened next.
C28_SearchSelect ==
    /\ [][lastOp'.op = "searchSelect" =>
             /\ \E k \in 1..Len(view.results) :
                   /\ view.results[k].id = lastOp'.arg
                   /\ selectedArticle' = <<view.results[k]>>
             /\ ~isSearchOpen'
             /\ query' = ""
             /\ view'.results = <<>> /\ ~view'.resultsPanel]_vars
    /\ [][(query = "" /\ lastOp'.op \notin {"setQuery", "recentSearch"}) =>
             query' = "" /\ view'.results = <<>> /\ ~view'.resultsPanel]_vars
    /\ [][lastOp'.op \in {"setQuery", "recentSearch"} => (isSearchOpen /\ isSearchOpen')]_vars

\* a result of the query "rugby" selected from the list
C28_Witness ==
    /\ lastOp.op = "searchSelect"
    /\ view.screen = "ARTICLE"
    /\ view.shown # <<>>
    /\ view.shown[1].id = lastOp.arg
    /\ ~isSearchOpen
    /\ query = ""

\* C29: a click on the bookmark or the share control of an article card, in
\* LIST or in OFFLINE, does not open the article: selectedArticle and the
\* displayed screen are unchanged, and so are the category, the network flag
\* and the search dialog.
C29_CardControls ==
    [][(lastOp'.op \in {"toggleBookmark", "share"} /\ view.screen \in {"LIST", "OFFLINE"}) =>
          /\ selectedArticle' = selectedArticle
          /\ view'.screen = view.screen
          /\ view'.shown = <<>>
          /\ activeCategory' = activeCategory
          /\ isOffline' = isOffline
          /\ isSearchOpen' = isSearchOpen]_vars

\* a saved article's bookmark control clicked on the offline page
C29_Witness ==
    /\ lastOp.op = "toggleBookmark"
    /\ view.screen = "OFFLINE"
    /\ selectedArticle = <<>>
    /\ emitted = <<"Removed from saved articles">>


-----------------------------------------------------------------------------
(* The way back to the list (RecoverySpec). *)

\* C30: no reachable state traps the user.  On OFFLINE the retry and back
\* buttons are available and lead to LIST, or to ARTICLE when an article is
\* selected; on ARTICLE the back control is available and leads to LIST: at
\* most two actions.  And a user who keeps taking these actions sees the LIST
\* screen again.
C30_NoTrap ==
    /\ [](view.screen \in {"LIST", "ARTICLE", "OFFLINE"})
    /\ [](view.screen = "OFFLINE" => ENABLED Retry)
    /\ [](view.screen = "ARTICLE" => ENABLED Back)
    /\ [][lastOp'.op \in {"retry", "offlineBack"} =>
             /\ view.screen = "OFFLINE"
             /\ view'.screen = IF selectedArticle = <<>> THEN "LIST" ELSE "ARTICLE"]_vars
    /\ [][lastOp'.op = "back" => (view.screen = "ARTICLE" /\ view'.screen = "LIST")]_vars
    /\ (view.screen # "LIST") ~> (view.screen = "LIST")

\* the list displayed again after the offline page with an article selected:
\* retry, then back
C30_Witness ==
    /\ view.screen = "LIST"
    /\ lastOp.op = "back"
    /\ nEvents = MaxEvents
    /\ ~isOffline
    /\ selectedArticle = <<>>

=============================================================================
